---- MODULE Spec2Model ----
(***************************************************************************)
(* A model of esp-mcp (src/main.py, src/esp_utils.py, src/config.py): the  *)
(* line-oriented JSON-RPC loop of ESPMCPServer, its method routing, the    *)
(* tool dispatcher and the tool handlers that shell out to the toolchain.  *)
(*                                                                         *)
(* Python values are modelled as tagged records [t, v]: t is the JSON type *)
(* and v the text str() gives for a scalar, or the key->value function of  *)
(* an object.  A Python dict is a TLA+ function, so dict.get and the `in`  *)
(* test are DOMAIN tests.  A multi-line string is the sequence of its      *)
(* lines, so that json.dumps (which escapes the line breaks and adds       *)
(* quotes) is not the identity.  A call that can raise returns a record    *)
(* whose field `raised` says so; the process state a handler can change    *)
(* (working directory, directories on disk) is threaded through as `os`.   *)
(***************************************************************************)
EXTENDS Integers, Sequences, FiniteSets, TLC

VARIABLES
    pc,             \* position of run(): "read", "handle", "done" (end of
                    \* stream), "interrupted" or "crashed"
    line,           \* the line readline() returned last
    request_count,  \* self.request_count
    stdout,         \* the lines written to sys.stdout and flushed
    buffer,         \* the lines written to sys.stdout and not yet flushed
    os,             \* [cwd, dirs]: working directory and directories on disk
    environ,        \* os.environ["IDF_PATH"] ("" when unset)
    stderr,         \* the errors the loop logged, with the number of the
                    \* request each is about
    last,           \* what the handling of `line` did (history)
    summary,        \* the count logged by "Server Stopped", -1 before
    fs,             \* the files an analysis handler is given: what open()
                    \* reads, by path
    report          \* the analysis handler called last, with its arguments
                    \* and what it returned

server == <<pc, line, request_count, stdout, buffer, os, environ, stderr, last, summary>>
vars == <<pc, line, request_count, stdout, buffer, os, environ, stderr, last, summary,
          fs, report>>

\* The number of input lines a run reads before the stream ends.
MaxLines == 2

----------------------------------------------------------------------------
(* Python and JSON values *)

JStr(s) == [t |-> "str", v |-> s]
JNum(s) == [t |-> "num", v |-> s]
JList(s) == [t |-> "list", v |-> s]
JObj(d) == [t |-> "obj", v |-> d]
None == [t |-> "null", v |-> "None"]
EmptyDict == <<>>

\* dict.get(k, default)
get(d, k, default) == IF k \in DOMAIN d THEN d[k] ELSE default

\* str(x) / f"{x}" of a scalar or list value
str(x) == x.v

\* bool(x)
truthy(x) ==
    CASE x.t = "null" -> FALSE
      [] x.t = "str"  -> x.v # ""
      [] x.t = "num"  -> x.v # "0"
      [] x.t = "list" -> x.v # "[]"
      [] x.t = "obj"  -> DOMAIN x.v # {}

\* type(x).__name__
TypeName(x) ==
    CASE x.t = "null" -> "NoneType"
      [] x.t = "str"  -> "str"
      [] x.t = "num"  -> "int"
      [] x.t = "list" -> "list"
      [] x.t = "obj"  -> "dict"

\* x == s for a string literal s
EqStr(x, s) == x.t = "str" /\ x.v = s

\* What a call did besides producing its value (history only): the tool
\* handler it invoked ("" for none), how that handler ended,
\* and the exit code of the external command it ran, if it ran one.
NoCall == [invoked |-> "", ended |-> "", ran |-> FALSE, returncode |-> 0]

\* The outcome of a call: a returned value or a raised exception, the process
\* state the call leaves behind, and the handler invoked on the way.
Return(value, o) ==
    [raised |-> FALSE, value |-> value, exc |-> [type |-> "", msg |-> ""],
     os |-> o, call |-> NoCall]
Raise(type, msg, o) ==
    [raised |-> TRUE, value |-> None, exc |-> [type |-> type, msg |-> msg],
     os |-> o, call |-> NoCall]

\* x.get(...) on a value that is no dict
NoAttribute(x, attr, o) ==
    Raise("AttributeError",
          "'" \o TypeName(x) \o "' object has no attribute '" \o attr \o "'", o)

RECURSIVE JoinLines(_, _)
JoinLines(lines, sep) ==
    IF lines = <<>> THEN ""
    ELSE IF Len(lines) = 1 THEN lines[1]
    ELSE lines[1] \o sep \o JoinLines(Tail(lines), sep)

\* json.dumps(s, ensure_ascii=False, indent=2) of a string: quoted, every
\* line break written as the two characters \n
json_dumps_str(lines) == "\"" \o JoinLines(lines, "\\n") \o "\""

----------------------------------------------------------------------------
(* The operating system as the handlers see it *)

\* Where the server is started, and the directories present at that time.
StartDir == "/srv"
InitialDirs == {"/srv", "/srv/proj", "/opt/esp-idf"}

\* Path texts that are relative; every other path text is absolute.
RelativePaths == {"proj", "new"}

\* os.path.abspath(p) under working directory cwd
abspath(cwd, p) == IF p \in RelativePaths THEN cwd \o "/" \o p ELSE p

\* os.path.dirname(p) for the file paths of the model
dirname(p) ==
    CASE p = "/srv/out/notes.txt" -> "/srv/out"
      [] p = "notes.txt" -> ""
      [] OTHER -> "/"

\* os.path.exists(p)
os_path_exists(o, p) == abspath(o.cwd, p) \in o.dirs

\* os.chdir(p): the new process state (p exists wherever the code calls it)
os_chdir(o, p) == [o EXCEPT !.cwd = abspath(o.cwd, p)]

\* os.makedirs(p, exist_ok=True)
os_makedirs(o, p) == [o EXCEPT !.dirs = o.dirs \cup {abspath(o.cwd, p)}]

\* What the world outside the process answers during one call: whether
\* export.sh is present in the toolchain directory, how the external command
\* ends, and whether the files a handler reads are found with the content it
\* looks for, are missing, or cannot be read.  No command is run without
\* export.sh, and none after a file was missing or unreadable, so the answers
\* left out here give the outcomes of the ones kept.
Envs ==
    {e \in [export_sh : BOOLEAN, cmd : {"ok", "fail", "timeout"},
            files : {"found", "missing", "unreadable"}] :
        /\ ~e.export_sh => e.cmd = "ok" /\ e.files = "found"
        /\ e.files # "found" => e.cmd = "ok"}

DEFAULT_COMMAND_TIMEOUT == 300

\* esp_utils.run_command_async: (returncode, stdout, stderr); a timeout and
\* any other failure to run become return code 1, never an exception.
run_command_async(env) ==
    CASE env.cmd = "ok" -> [returncode |-> 0, stdout |-> "done", stderr |-> ""]
      [] env.cmd = "fail" -> [returncode |-> 2, stdout |-> "", stderr |-> "ninja: build stopped"]
      [] env.cmd = "timeout" ->
            [returncode |-> 1, stdout |-> "",
             stderr |-> "Command timeout after " \o ToString(DEFAULT_COMMAND_TIMEOUT) \o " seconds"]

\* esp_utils.get_esp_idf_dir
get_esp_idf_dir(idf_path, idf_env, o) ==
    IF truthy(idf_path) THEN Return(abspath(o.cwd, str(idf_path)), o)
    ELSE IF idf_env # "" THEN Return(abspath(o.cwd, idf_env), o)
    ELSE Raise("ValueError",
               "IDF_PATH must be provided either as parameter or environment variable.", o)

\* esp_utils.get_export_script
get_export_script(idf_path, idf_env, env, o) ==
    LET esp_idf_dir == get_esp_idf_dir(idf_path, idf_env, o)
    IN  IF esp_idf_dir.raised THEN esp_idf_dir
        ELSE IF ~env.export_sh
             THEN Raise("FileNotFoundError",
                        "ESP-IDF export script not found at: " \o esp_idf_dir.value \o "/export.sh", o)
             ELSE Return(esp_idf_dir.value \o "/export.sh", o)

\* idf_path if (idf_path and idf_path.strip()) else None
idf_or_none(idf_path) == IF truthy(idf_path) THEN idf_path ELSE None

\* f"STDOUT:\n{stdout}\nSTDERR:\n{stderr}"
StdoutStderr(r) == <<"STDOUT:", r.stdout, "STDERR:", r.stderr>>

\* return {"result": f"STDOUT:..."} after run_command_async returned c: the
\* return code is logged and not looked at.
command_result(c, o) ==
    [Return([result |-> StdoutStderr(c)], o)
        EXCEPT !.call = [NoCall EXCEPT !.ran = TRUE, !.returncode = c.returncode]]

----------------------------------------------------------------------------
(* Tool handlers: (args) -> {"result": ...} or {"error": ...}, or raise *)

\* The shape shared by the handlers that work in a project directory:
\* validate project_path, chdir into it, resolve export.sh, then either run an
\* external command or return the command text for the user to run.
\*   idf_arg: the handler passes args["idf_path"] to get_export_script
\*   run:     the handler runs the command through run_command_async
\*   restore: the handler saves os.getcwd() and restores it in `finally`
project_handler(args, env, idf_env, o, idf_arg, run, restore, manual) ==
    IF args.t # "obj" THEN NoAttribute(args, "get", o)
    ELSE
    LET project_path == get(args.v, "project_path", JStr(""))
        idf_path == IF idf_arg THEN get(args.v, "idf_path", None) ELSE None
    IN  IF ~truthy(project_path) \/ ~os_path_exists(o, str(project_path))
        THEN Return([error |-> "Project path does not exist: " \o str(project_path)], o)
        ELSE
        LET inside == os_chdir(o, str(project_path))
            after == IF restore THEN os_chdir(inside, o.cwd) ELSE inside
            export_script == get_export_script(idf_or_none(idf_path), idf_env, env, inside)
        IN  IF export_script.raised
            THEN Return([error |-> "Failed to setup ESP-IDF environment: "
                                       \o export_script.exc.msg], after)
            ELSE IF run
                 THEN command_result(run_command_async(env), after)
                 ELSE Return([result |-> <<manual, "bash -c 'source "
                                             \o export_script.value \o " && idf.py'">>], after)

\* f"STDOUT:\n{stdout_with_timing}\nSTDERR:\n{stderr}" of the build handler
with_timing(r, c) ==
    IF r.raised \/ "error" \in DOMAIN r.value THEN r
    ELSE [r EXCEPT !.value = [result |-> <<"STDOUT:", c.stdout, "", "",
                                          "[Build completed]", "", "STDERR:", c.stderr>>]]

\* The build handler is project_handler with the timing line added to stdout.
handle_build_esp_project(args, env, idf_env, o) ==
    with_timing(project_handler(args, env, idf_env, o, TRUE, TRUE, FALSE, ""),
                run_command_async(env))

handle_setup_project_esp_target(args, env, idf_env, o) ==
    project_handler(args, env, idf_env, o, TRUE, TRUE, FALSE, "")

handle_flash_esp_project(args, env, idf_env, o) ==
    project_handler(args, env, idf_env, o, FALSE, TRUE, FALSE, "")

handle_clean_esp_project(args, env, idf_env, o) ==
    project_handler(args, env, idf_env, o, TRUE, TRUE, FALSE, "")

handle_erase_flash_esp(args, env, idf_env, o) ==
    project_handler(args, env, idf_env, o, TRUE, TRUE, FALSE, "")

handle_run_pytest(args, env, idf_env, o) ==
    project_handler(args, env, idf_env, o, TRUE, TRUE, TRUE, "")

handle_monitor_esp(args, env, idf_env, o) ==
    project_handler(args, env, idf_env, o, TRUE, FALSE, FALSE,
        "Monitor command requires interactive terminal. Please run manually:")

handle_flash_and_monitor_esp(args, env, idf_env, o) ==
    project_handler(args, env, idf_env, o, TRUE, FALSE, FALSE,
        "Flash and monitor command requires interactive terminal. Please run manually:")

handle_menuconfig_esp(args, env, idf_env, o) ==
    project_handler(args, env, idf_env, o, TRUE, FALSE, FALSE,
        "Menuconfig requires interactive terminal. Please run manually:")

handle_gdb_attach(args, env, idf_env, o) ==
    project_handler(args, env, idf_env, o, TRUE, FALSE, FALSE, "GDB Debugger Attach")

handle_get_heap_info(args, env, idf_env, o) ==
    project_handler(args, env, idf_env, o, TRUE, FALSE, FALSE, "Heap Memory Information")

handle_get_task_stats(args, env, idf_env, o) ==
    project_handler(args, env, idf_env, o, TRUE, FALSE, FALSE, "FreeRTOS Task Statistics")

\* set_esp_partition also requires a partition table before it changes directory.
handle_set_esp_partition(args, env, idf_env, o) ==
    IF args.t # "obj" THEN NoAttribute(args, "get", o)
    ELSE
    LET project_path == get(args.v, "project_path", JStr(""))
    IN  IF ~truthy(project_path) \/ ~os_path_exists(o, str(project_path))
        THEN Return([error |-> "Project path does not exist: " \o str(project_path)], o)
        ELSE IF ~truthy(get(args.v, "partition_table", JStr("")))
        THEN Return([error |-> "Partition table file is required"], o)
        ELSE project_handler(args, env, idf_env, o, TRUE, TRUE, FALSE, "")

\* get_core_dump runs coredump-info only when the project's sdkconfig is found
\* and enables core dumps.
core_dump_enabled(r, enabled) ==
    IF r.raised \/ "error" \in DOMAIN r.value \/ enabled THEN r
    ELSE [r EXCEPT !.value = [result |-> <<"Core dump is not enabled in sdkconfig. To enable:">>],
                   !.call = NoCall]

handle_get_core_dump(args, env, idf_env, o) ==
    core_dump_enabled(project_handler(args, env, idf_env, o, TRUE, TRUE, FALSE, ""),
                      env.files = "found")

\* create_esp_project makes the directory instead of requiring it.
handle_create_esp_project(args, env, idf_env, o) ==
    IF args.t # "obj" THEN NoAttribute(args, "get", o)
    ELSE
    LET project_path == get(args.v, "project_path", JStr(""))
    IN  IF ~truthy(project_path)
        THEN Return([error |-> "Unexpected error: [Errno 2] No such file or directory: ''"], o)
        ELSE
        LET inside == os_chdir(os_makedirs(o, str(project_path)), str(project_path))
            export_script == get_export_script(None, idf_env, env, inside)
        IN  IF export_script.raised
            THEN Return([error |-> "Failed to setup ESP-IDF environment: "
                                       \o export_script.exc.msg], inside)
            ELSE command_result(run_command_async(env), inside)

\* list_esp_serial_ports never reads args and list_serial_ports never fails.
handle_list_esp_serial_ports(args, env, idf_env, o) ==
    Return([result |-> <<"STDOUT:", "Common ESP device ports to try:", "STDERR:",
                         "Note: Could not auto-detect ports, showing common ports">>], o)

\* write_file creates the directory of the file before writing it.
handle_write_file(args, env, idf_env, o) ==
    IF args.t # "obj" THEN NoAttribute(args, "get", o)
    ELSE
    LET file_path == get(args.v, "file_path", JStr(""))
        content == get(args.v, "content", JStr(""))
    IN  IF ~truthy(file_path) THEN Return([error |-> "File path is required"], o)
        ELSE IF content.t = "null" THEN Return([error |-> "Content is required"], o)
        ELSE IF dirname(str(file_path)) = ""
        THEN Return([error |-> "Unexpected error: [Errno 2] No such file or directory: ''"], o)
        ELSE Return([result |-> <<"Successfully wrote to " \o str(file_path)>>],
                    os_makedirs(o, dirname(str(file_path))))

\* The remaining handlers read files or the toolchain directory and leave
\* the working directory as they found it (get_esp_idf_version and
\* run_esp_idf_install restore it in `finally`).  Here only their outcome
\* matters: what they compute is modelled where a property is about it.
ReadOnlyTools == {
    "get_esp_idf_version", "check_esp_idf_env", "get_project_config",
    "run_esp_idf_install", "get_project_info", "list_components", "read_file",
    "list_files", "parse_build_log", "analyze_memory_map", "compare_sdkconfig",
    "analyze_dependencies", "format_device_log"}

handle_read_only(name, args, env, idf_env, o) ==
    IF args.t # "obj" THEN NoAttribute(args, "get", o)
    ELSE CASE env.files = "found" -> Return([result |-> <<name \o ": ok">>], o)
           [] env.files = "missing" -> Return([error |-> "File not found: " \o name], o)
           [] env.files = "unreadable" -> Raise("OSError", "[Errno 5] Input/output error", o)

----------------------------------------------------------------------------
(* Tool registry and dispatcher *)

\* The names of TOOLS, in registry order.
TOOLS == <<
    "build_esp_project", "clean_esp_project", "erase_flash_esp", "monitor_esp",
    "flash_and_monitor_esp", "menuconfig_esp", "get_esp_idf_version",
    "check_esp_idf_env", "get_project_config", "set_esp_partition",
    "setup_project_esp_target", "create_esp_project", "flash_esp_project",
    "list_esp_serial_ports", "run_esp_idf_install", "run_pytest",
    "get_project_info", "list_components", "gdb_attach", "get_core_dump",
    "get_heap_info", "get_task_stats", "read_file", "write_file", "list_files",
    "parse_build_log", "analyze_memory_map", "compare_sdkconfig",
    "analyze_dependencies", "format_device_log">>

\* The `handlers` dict without its entries for the five analysis tools.
handlers_without_analysis == {TOOLS[i] : i \in 1..(Len(TOOLS) - 5)}

\* The keys of the `handlers` dict of execute_tool.
handlers == {
    "build_esp_project", "clean_esp_project", "erase_flash_esp", "monitor_esp",
    "flash_and_monitor_esp", "menuconfig_esp", "get_esp_idf_version",
    "check_esp_idf_env", "get_project_config", "set_esp_partition",
    "setup_project_esp_target", "create_esp_project", "flash_esp_project",
    "list_esp_serial_ports", "run_esp_idf_install", "run_pytest",
    "get_project_info", "list_components", "gdb_attach", "get_core_dump",
    "get_heap_info", "get_task_stats", "read_file", "write_file", "list_files",
    "parse_build_log", "analyze_memory_map", "compare_sdkconfig",
    "analyze_dependencies", "format_device_log"}

\* handler(args) for the handler registered under `name`
call_handler(name, args, env, idf_env, o) ==
    CASE name = "build_esp_project" -> handle_build_esp_project(args, env, idf_env, o)
      [] name = "clean_esp_project" -> handle_clean_esp_project(args, env, idf_env, o)
      [] name = "erase_flash_esp" -> handle_erase_flash_esp(args, env, idf_env, o)
      [] name = "monitor_esp" -> handle_monitor_esp(args, env, idf_env, o)
      [] name = "flash_and_monitor_esp" -> handle_flash_and_monitor_esp(args, env, idf_env, o)
      [] name = "menuconfig_esp" -> handle_menuconfig_esp(args, env, idf_env, o)
      [] name = "set_esp_partition" -> handle_set_esp_partition(args, env, idf_env, o)
      [] name = "setup_project_esp_target" -> handle_setup_project_esp_target(args, env, idf_env, o)
      [] name = "create_esp_project" -> handle_create_esp_project(args, env, idf_env, o)
      [] name = "flash_esp_project" -> handle_flash_esp_project(args, env, idf_env, o)
      [] name = "list_esp_serial_ports" -> handle_list_esp_serial_ports(args, env, idf_env, o)
      [] name = "run_pytest" -> handle_run_pytest(args, env, idf_env, o)
      [] name = "gdb_attach" -> handle_gdb_attach(args, env, idf_env, o)
      [] name = "get_core_dump" -> handle_get_core_dump(args, env, idf_env, o)
      [] name = "get_heap_info" -> handle_get_heap_info(args, env, idf_env, o)
      [] name = "get_task_stats" -> handle_get_task_stats(args, env, idf_env, o)
      [] name = "write_file" -> handle_write_file(args, env, idf_env, o)
      [] name \in ReadOnlyTools -> handle_read_only(name, args, env, idf_env, o)

\* How a handler call ended, for the history.
Called(name, r) ==
    [r.call EXCEPT !.invoked = name,
                   !.ended = IF r.raised THEN "raised"
                             ELSE IF "error" \in DOMAIN r.value THEN "error"
                             ELSE "result"]

\* handler_result without the try/except around the handler call.
handler_result_uncaught(name, r) ==
    [r EXCEPT !.call = Called(name, r)]

\* try: return handler(args); except Exception as e: return {"error": str(e)}
handler_result(name, r) ==
    [(IF r.raised THEN Return([error |-> r.exc.msg], r.os) ELSE r)
        EXCEPT !.call = Called(name, r)]

\* ESPMCPServer.execute_tool.  `name` is any JSON value: a list or an object
\* is unhashable, and handlers.get(name) raises TypeError outside the try.
execute_tool(name, args, env, idf_env, o) ==
    IF name.t \in {"list", "obj"}
    THEN Raise("TypeError", "unhashable type: '" \o TypeName(name) \o "'", o)
    ELSE IF ~(name.t = "str" /\ name.v \in handlers)
    THEN Return([error |-> "Unknown tool: " \o str(name)], o)
    ELSE handler_result(name.v, call_handler(name.v, args, env, idf_env, o))

----------------------------------------------------------------------------
(* Protocol engine *)

\* The tool names enumerated in the instructions string of initialize.
InstructionTools == <<
    "build_esp_project", "clean_esp_project", "erase_flash_esp", "monitor_esp",
    "flash_and_monitor_esp", "menuconfig_esp", "get_esp_idf_version",
    "check_esp_idf_env", "get_project_config", "set_esp_partition",
    "setup_project_esp_target", "create_esp_project", "flash_esp_project",
    "list_esp_serial_ports", "run_esp_idf_install", "run_pytest",
    "get_project_info", "list_components", "gdb_attach", "get_core_dump",
    "get_heap_info", "get_task_stats", "read_file", "write_file", "list_files",
    "parse_build_log", "analyze_memory_map", "compare_sdkconfig",
    "analyze_dependencies", "format_device_log">>

\* ESPMCPServer._handle_initialize
_handle_initialize(req_id, idf_env, o) ==
    [jsonrpc |-> "2.0", id |-> req_id,
     result |-> [protocolVersion |-> "2024-11-05",
                 capabilities |-> [tools |-> EmptyDict],
                 serverInfo |-> [name |-> "esp-mcp", version |-> "1.0.0"],
                 instructions |->
                    [tools |-> InstructionTools,
                     path_info |-> IF idf_env # ""
                                   THEN "ESP-IDF path detected: " \o abspath(o.cwd, idf_env)
                                   ELSE "Note: ESP-IDF path not detected in environment."]]]

\* _handle_tools_list answering with the registry in reverse order.
_handle_tools_list_reversed(req_id) ==
    [jsonrpc |-> "2.0", id |-> req_id,
     result |-> [tools |-> [i \in 1..Len(TOOLS) |-> TOOLS[Len(TOOLS) + 1 - i]]]]

\* ESPMCPServer._handle_tools_list
_handle_tools_list(req_id) ==
    [jsonrpc |-> "2.0", id |-> req_id, result |-> [tools |-> TOOLS]]

\* ESPMCPServer._error_response
_error_response(req_id, code, message) ==
    [jsonrpc |-> "2.0", id |-> req_id, error |-> [code |-> code, message |-> message]]

\* The envelope _handle_tools_call builds from what execute_tool returned.
tool_envelope(req_id, result) ==
    IF result.raised THEN result
    ELSE
    LET is_error == "error" \in DOMAIN result.value
        text == IF is_error THEN "Error: " \o result.value.error
                ELSE json_dumps_str(result.value.result)
    IN  [result EXCEPT !.value =
            [jsonrpc |-> "2.0", id |-> req_id,
             result |-> [content |-> <<[type |-> "text", text |-> text]>>,
                         isError |-> is_error]]]

\* ESPMCPServer._handle_tools_call
_handle_tools_call(req_id, params, env, idf_env, o) ==
    IF params.t # "obj" THEN NoAttribute(params, "get", o)
    ELSE tool_envelope(req_id,
            execute_tool(get(params.v, "name", JStr("")),
                         get(params.v, "arguments", JObj(EmptyDict)),
                         env, idf_env, o))

\* handle_request with the final `else` returning None, as for a notification.
handle_request_silent_else(req, env, idf_env, o) ==
    IF req.t # "obj" THEN NoAttribute(req, "get", o)
    ELSE
    LET method == get(req.v, "method", JStr(""))
        req_id == get(req.v, "id", None)
        params == get(req.v, "params", JObj(EmptyDict))
    IN  IF EqStr(method, "initialize") THEN Return(_handle_initialize(req_id, idf_env, o), o)
        ELSE IF EqStr(method, "notifications/initialized") THEN Return(None, o)
        ELSE IF EqStr(method, "tools/list") THEN Return(_handle_tools_list(req_id), o)
        ELSE IF EqStr(method, "tools/call")
        THEN _handle_tools_call(req_id, params, env, idf_env, o)
        ELSE Return(None, o)

\* ESPMCPServer.handle_request: the response dict, None, or an exception.
handle_request(req, env, idf_env, o) ==
    IF req.t # "obj" THEN NoAttribute(req, "get", o)
    ELSE
    LET method == get(req.v, "method", JStr(""))
        req_id == get(req.v, "id", None)
        params == get(req.v, "params", JObj(EmptyDict))
    IN  IF EqStr(method, "initialize") THEN Return(_handle_initialize(req_id, idf_env, o), o)
        ELSE IF EqStr(method, "notifications/initialized") THEN Return(None, o)
        ELSE IF EqStr(method, "tools/list") THEN Return(_handle_tools_list(req_id), o)
        ELSE IF EqStr(method, "tools/call")
        THEN _handle_tools_call(req_id, params, env, idf_env, o)
        ELSE Return(_error_response(req_id, -32601, "Method not found: " \o str(method)), o)

----------------------------------------------------------------------------
(* Input lines *)

\* A line of input: its JSON document when it is well-formed JSON text.
\* "blank" is a line holding only its terminator, "malformed" any other text
\* json.loads rejects.
Line(raw, doc) == [raw |-> raw, doc |-> doc]

\* json.loads(line)
json_loads(l, o) ==
    IF l.raw = "json" THEN Return(l.doc, o)
    ELSE Raise("JSONDecodeError", "Expecting value: line 1 column 1 (char 0)", o)

\* A dict with the optional key k absent or bound to a value of vals.
Optional(k, vals) == {EmptyDict} \cup {k :> x : x \in vals}

Ids == {JNum("1")}
OtherMethods == {JStr("initialize"), JStr("notifications/initialized"),
                 JStr("tools/list"), JStr("ping"), JNum("5")}

Named(tool) == "name" :> JStr(tool)
Args(a) == "arguments" :> a
InProject(path) == JObj([project_path |-> JStr(path)])

\* params of the tools/call requests: no object at all; a registered tool
\* with arguments absent, null or an object naming a relative, an absolute or a
\* missing project path; an absent, unregistered, numeric or list name.
CallParams ==
    {None, JList("[1]")}
    \cup {JObj(Named("build_esp_project") @@ a) :
            a \in Optional("arguments", {None, InProject("proj"), InProject("/missing")})}
    \cup {JObj(Named("run_pytest") @@ a) : a \in {Args(None), Args(InProject("proj"))}}
    \cup {JObj(Named("erase_flash_esp") @@ Args(InProject("/srv/proj"))),
          JObj(Named("list_esp_serial_ports") @@ Args(None)),
          JObj(Named("read_file")), JObj(Named("read_file") @@ Args(None))}
    \cup {JObj(n) : n \in Optional("name", {JStr("no_such_tool"), JNum("7"), JList("['x']")})}

\* The same requests sent as notifications (without id): a few of each kind.
NotifiedCallParams ==
    {JList("[1]"), JObj(Named("build_esp_project") @@ Args(InProject("proj"))),
     JObj(Named("no_such_tool"))}

Requests ==
    {JObj(m @@ i) : m \in Optional("method", OtherMethods), i \in Optional("id", Ids)}
    \cup {JObj(("method" :> JStr("initialize")) @@ ("id" :> i) @@ ("params" :> JList("[1]"))) :
            i \in Ids}
    \cup {JObj(("method" :> JStr("tools/call")) @@ ("id" :> i) @@ p) :
            i \in Ids, p \in Optional("params", CallParams)}
    \cup {JObj(("method" :> JStr("tools/call")) @@ p) :
            p \in Optional("params", NotifiedCallParams)}

Lines ==
    {Line("blank", None), Line("malformed", None)}
    \cup {Line("json", d) : d \in Requests \cup {JList("[1, 2]"), None}}

----------------------------------------------------------------------------
(* ESPMCPServer.run *)

NothingYet == [answered |-> FALSE, log |-> "", exc |-> "", call |-> NoCall]

\* write_and_flush without the flush: the line stays in the stream's buffer.
write_without_flush(response, seq, out) ==
    IF response = None THEN out
    ELSE [flushed |-> out.flushed,
          unflushed |-> out.unflushed \o <<[seq |-> seq, msg |-> response]>>]

\* sys.stdout.write(json.dumps(response) + "\n"); sys.stdout.flush(), under
\* `if response:`.  An entry of stdout is the response and the sequence
\* number of the request it answers (history).
write_and_flush(response, seq, out) ==
    IF response = None THEN out
    ELSE [flushed |-> out.flushed \o out.unflushed \o <<[seq |-> seq, msg |-> response]>>,
          unflushed |-> <<>>]

\* What one pass through the try block leaves: the output streams, the
\* process state, what was logged, and where the loop goes next.
Pass(out, o, log, exc, call) ==
    [out |-> out, os |-> o, log |-> log, exc |-> exc, call |-> call, pc |-> "read"]

\* try_handle with `except Exception` answering with a JSON-RPC internal error.
try_handle_answering(r, seq, out) ==
    IF r.raised
    THEN Pass(write_and_flush(_error_response(None, -32603, r.exc.msg), seq, out),
              r.os, "Critical Error", r.exc.type, r.call)
    ELSE Pass(write_and_flush(r.value, seq, out), r.os, "", "", r.call)

\* response = self.handle_request(request) and what follows it: the response
\* is written, or `except Exception` logs the request number and goes on.
try_handle(r, seq, out) ==
    IF r.raised THEN Pass(out, r.os, "Critical Error", r.exc.type, r.call)
    ELSE Pass(write_and_flush(r.value, seq, out), r.os, "", "", r.call)

\* iteration with `except json.JSONDecodeError` answering with a parse error.
iteration_parse_error(l, seq, env, idf_env, o, out) ==
    IF json_loads(l, o).raised
    THEN Pass(write_and_flush(_error_response(None, -32700, "Parse error"), seq, out),
              o, "Failed to decode JSON", "JSONDecodeError", NoCall)
    ELSE try_handle(handle_request(json_loads(l, o).value, env, idf_env, o), seq, out)

\* The try block of the loop for line l, read as request number seq.
iteration(l, seq, env, idf_env, o, out) ==
    IF json_loads(l, o).raised
    THEN Pass(out, o, "Failed to decode JSON", "JSONDecodeError", NoCall)
    ELSE try_handle(handle_request(json_loads(l, o).value, env, idf_env, o), seq, out)

\* No analysis handler has been called.
NoReport == [tool |-> "", args |-> EmptyDict, outcome |-> EmptyDict]

\* The server object after construction, before run() reads a line.
Constructed ==
    /\ pc = "read"
    /\ line = Line("blank", None)
    /\ request_count = 0
    /\ stdout = <<>>
    /\ buffer = <<>>
    /\ os = [cwd |-> StartDir, dirs |-> InitialDirs]
    /\ stderr = <<>>
    /\ last = NothingYet
    /\ summary = -1
    /\ report = NoReport

Init ==
    /\ Constructed
    /\ environ \in {"", "/opt/esp-idf"}
    /\ fs = EmptyDict

\* line = sys.stdin.readline() returns a line; self.request_count += 1
ReadLine ==
    /\ pc = "read"
    /\ request_count < MaxLines
    /\ \E l \in Lines : line' = l
    /\ request_count' = request_count + 1
    /\ last' = NothingYet
    /\ pc' = "handle"
    /\ UNCHANGED <<stdout, buffer, os, environ, stderr, summary, fs, report>>

\* EndOfStream logging the number of responses written.
EndOfStream_counting_responses ==
    /\ pc = "read"
    /\ pc' = "done"
    /\ summary' = Len(stdout)
    /\ UNCHANGED <<line, request_count, stdout, buffer, os, environ, stderr, last, fs, report>>

\* readline() returns "" at end of stream: break, then the `finally` log
EndOfStream ==
    /\ pc = "read"
    /\ pc' = "done"
    /\ summary' = request_count
    /\ UNCHANGED <<line, request_count, stdout, buffer, os, environ, stderr, last, fs, report>>

\* KeyboardInterrupt while blocked in readline()
Interrupt ==
    /\ pc = "read"
    /\ request_count < MaxLines
    /\ pc' = "interrupted"
    /\ summary' = request_count
    /\ UNCHANGED <<line, request_count, stdout, buffer, os, environ, stderr, last, fs, report>>

\* readline() raises UnicodeDecodeError on bytes that are not UTF-8: the
\* exception leaves run() through `finally` and main() exits with status 1
ReadError ==
    /\ pc = "read"
    /\ request_count < MaxLines
    /\ pc' = "crashed"
    /\ summary' = request_count
    /\ UNCHANGED <<line, request_count, stdout, buffer, os, environ, stderr, last, fs, report>>

\* The state one pass leaves behind.
Leave(it) ==
    /\ stdout' = it.out.flushed
    /\ buffer' = it.out.unflushed
    /\ os' = it.os
    /\ stderr' = IF it.log = "" THEN stderr
                 ELSE Append(stderr, [seq |-> request_count, text |-> it.log])
    /\ last' = [answered |-> it.out.flushed # stdout, log |-> it.log,
                exc |-> it.exc, call |-> it.call]
    /\ pc' = it.pc
    /\ UNCHANGED <<line, request_count, environ, summary, fs, report>>

ThisPass(env) ==
    iteration(line, request_count, env, environ, os,
              [flushed |-> stdout, unflushed |-> buffer])

\* json.loads fails: except json.JSONDecodeError
DecodeFailure ==
    /\ pc = "handle"
    /\ \E env \in Envs : \E it \in {ThisPass(env)} :
        it.exc = "JSONDecodeError" /\ Leave(it)

\* handle_request raises: except Exception
CriticalError ==
    /\ pc = "handle"
    /\ \E env \in Envs : \E it \in {ThisPass(env)} :
        it.exc \notin {"", "JSONDecodeError"} /\ Leave(it)

\* handle_request returns: the response, if any, is written and flushed
Respond ==
    /\ pc = "handle"
    /\ \E env \in Envs : \E it \in {ThisPass(env)} :
        it.exc = "" /\ Leave(it)

Next ==
    \/ ReadLine
    \/ EndOfStream
    \/ Interrupt
    \/ ReadError
    \/ DecodeFailure
    \/ CriticalError
    \/ Respond

Spec == Init /\ [][Next]_vars

\* The input stream is closed in the end, and handling a line returns (a
\* command is given up after its timeout).  The second condition is
\* WF_vars(DecodeFailure \/ CriticalError \/ Respond): one of the three is
\* enabled exactly when pc = "handle", and each of them leaves that position.
LiveSpec == Spec /\ WF_vars(EndOfStream) /\ []<>(pc # "handle")

----------------------------------------------------------------------------
(* Analysis handlers.  Their arguments are dicts of strings and `files`   *)
(* gives, for each path that exists, what open() reads from it.  What a    *)
(* handler returns is {"error": message} or {"result": json.dumps(dict)}:  *)
(* the serialized dict is kept as [json |-> dict].                         *)

\* json.dumps(result, indent=2, ensure_ascii=False)
json_dumps(result) == [json |-> result]

\* s[:n] without the limit.
TakeAll(s, n) == s

\* s[:n]
Take(s, n) == SubSeq(s, 1, IF Len(s) < n THEN Len(s) ELSE n)

\* [x for x in s if Test(x)]
Filter(s, Test(_)) == SelectSeq(s, Test)

\* n copies of x, one after the other.
Repeat(x, n) == [i \in 1..n |-> x]

(* parse_build_log.  A line of text is [indent, words]: the fragments it is
   made of, after `indent` blanks.  A keyword occurs in a line when one of
   its fragments, lowercased, is the keyword. *)

\* str.lower, on the fragments that have capitals.
lower(w) ==
    CASE w = "Error:" -> "error:"
      [] w = "WARNING:" -> "warning:"
      [] w = "Linking" -> "linking"
      [] w = "No such file" -> "no such file"
      [] OTHER -> w

\* keyword in text.lower()
keyword_in(keyword, words) == \E i \in 1..Len(words) : lower(words[i]) = keyword

\* any(keyword in line_lower for keyword in keywords)
any_keyword(keywords, l) == \E keyword \in keywords : keyword_in(keyword, l.words)

\* line.strip()
strip(l) == l.words

ErrorKeywords == {"error:", "error ", "failed", "undefined reference", "multiple definition"}
WarningKeywords == {"warning:", "warning ", "deprecated", "unused"}
InfoKeywords == {"building", "linking", "generating", "project build complete"}

\* The lengths errors[:20], warnings[:20] and info_messages[:10] cut to.
MaxErrorsListed == 20
MaxWarningsListed == 20
MaxInfoListed == 10

\* The if / elif / elif of the loop body with warnings tested first.
bucket_warning_first(l) ==
    IF any_keyword(WarningKeywords, l) THEN "warning"
    ELSE IF any_keyword(ErrorKeywords, l) THEN "error"
    ELSE IF any_keyword(InfoKeywords, l) THEN "info"
    ELSE ""

\* The if / elif / elif of the loop body: the list the line is appended to.
bucket(l) ==
    IF any_keyword(ErrorKeywords, l) THEN "error"
    ELSE IF any_keyword(WarningKeywords, l) THEN "warning"
    ELSE IF any_keyword(InfoKeywords, l) THEN "info"
    ELSE ""

\* for i, line in enumerate(lines, 1): the entry line i is appended as.
log_entries(lines) ==
    [i \in 1..Len(lines) |->
        [line |-> i, message |-> strip(lines[i]), type |-> bucket(lines[i])]]

\* The error_types loop over err["message"].lower() of every error.
error_types(errors) ==
    {CASE keyword_in("undefined reference", errors[i].message) -> "linking_error"
       [] keyword_in("multiple definition", errors[i].message) -> "linking_error"
       [] keyword_in("syntax error", errors[i].message) -> "syntax_error"
       [] keyword_in("no such file", errors[i].message) -> "file_not_found"
       [] OTHER -> ""
     : i \in 1..Len(errors)}

\* result["suggestions"]
suggestions(types) ==
    (IF "linking_error" \in types
     THEN <<"Check for missing source files in CMakeLists.txt",
            "Ensure all required libraries are linked">>
     ELSE <<>>)
    \o (IF "syntax_error" \in types THEN <<"Review syntax errors in source files">> ELSE <<>>)
    \o (IF "file_not_found" \in types THEN <<"Verify all file paths are correct">> ELSE <<>>)

\* The result dict of parse_build_log for the lines read.
build_log_result(log_path, project_path, lines, errors, warnings, info_messages) ==
    [log_path |-> log_path,
     project_path |-> IF project_path # "" THEN project_path ELSE "not specified",
     summary |-> [total_lines |-> Len(lines),
                  errors_count |-> Len(errors),
                  warnings_count |-> Len(warnings),
                  info_count |-> Len(info_messages)],
     errors |-> Take(errors, MaxErrorsListed),
     warnings |-> Take(warnings, MaxWarningsListed),
     info |-> Take(info_messages, MaxInfoListed),
     has_errors |-> Len(errors) > 0,
     has_warnings |-> Len(warnings) > 0]
    @@ (IF Len(errors) > 0
        THEN [suggestions |-> suggestions(error_types(errors))]
        ELSE EmptyDict)

IsError(e) == e.type = "error"
IsWarning(e) == e.type = "warning"
IsInfo(e) == e.type = "info"

\* handle_parse_build_log
handle_parse_build_log(args, files) ==
    IF get(args, "log_path", "") = "" \/ get(args, "log_path", "") \notin DOMAIN files
    THEN [error |-> "Build log file does not exist: " \o get(args, "log_path", "")]
    ELSE [result |-> json_dumps(
            build_log_result(args.log_path, get(args, "project_path", ""),
                             files[args.log_path],
                             Filter(log_entries(files[args.log_path]), IsError),
                             Filter(log_entries(files[args.log_path]), IsWarning),
                             Filter(log_entries(files[args.log_path]), IsInfo)))]

\* The longest run of equal lines in a file.
MaxRun == 21

\* Lines of a build log: with a keyword of one list, of two lists, of none;
\* an error with the text of one category of suggestions, of two, of none.
BuildLogLines ==
    {[indent |-> 0, words |-> <<"main.c:12:", "Error:", "syntax error">>],
     [indent |-> 0, words |-> <<"error:", "unused", "variable">>],
     [indent |-> 0, words |-> <<"error:", "No such file", "after", "syntax error">>],
     [indent |-> 2, words |-> <<"undefined reference", "to", "app_main">>],
     [indent |-> 0, words |-> <<"WARNING:", "x", "is", "deprecated">>],
     [indent |-> 0, words |-> <<"deprecated", "while", "building">>],
     [indent |-> 0, words |-> <<"Linking", "app.elf">>],
     [indent |-> 2, words |-> <<"main.c">>],
     [indent |-> 0, words |-> <<>>]}

\* One or n copies of a line.
Runs(kinds, n) == {Repeat(l, k) : l \in kinds, k \in {1, n}}

\* Files of at most three runs.
FilesOf(kinds, n) ==
    {<<>>} \cup Runs(kinds, n)
    \cup {a \o b : a, b \in Runs(kinds, n)}
    \cup {a \o b \o c : a, b, c \in Runs(kinds, n)}

BuildLogs == FilesOf(BuildLogLines, MaxRun)

BuildLogArgs ==
    {[log_path |-> "build.log"], [log_path |-> "build.log", project_path |-> "proj"],
     [log_path |-> "gone.log"], [log_path |-> ""], EmptyDict}

BuildLogInit ==
    /\ Constructed
    /\ environ = ""
    /\ fs \in {"build.log" :> f : f \in BuildLogs}

\* tools/call parse_build_log
ParseBuildLog ==
    /\ report = NoReport
    /\ \E args \in BuildLogArgs :
        report' = [tool |-> "parse_build_log", args |-> args,
                   outcome |-> handle_parse_build_log(args, fs)]
    /\ UNCHANGED <<server, fs>>

BuildLogNext == ParseBuildLog

BuildLogSpec == BuildLogInit /\ [][BuildLogNext]_vars

(* analyze_memory_map.  A line is [indent, words] with `words` what
   line.split() gives. *)

\* int(text, 16), where it does not raise ValueError.
hex_value == [w \in {"0x0", "0x10", "0x400", "ff", "-0x10"} |->
                CASE w = "0x0" -> 0
                  [] w = "0x10" -> 16
                  [] w = "0x400" -> 1024
                  [] w = "ff" -> 255
                  [] w = "-0x10" -> -16]

\* int(text, 16) raises ValueError
not_hex(w) == w \notin DOMAIN hex_value

\* '0x' in line
has_0x(l) ==
    \E i \in 1..Len(l.words) : l.words[i] \in {"0x0", "0x10", "0x400", "-0x10", "0xZZ"}

\* line.startswith('.')
startswith_dot(l) ==
    l.indent = 0 /\ Len(l.words) > 0 /\ l.words[1] \in {".text", ".data", ".bss"}

\* f"0x{addr:08X}"
hex08(addr) == <<"0x%08X", addr>>

\* The region a line adds to memory_regions: none, or one.
region_of(l) ==
    IF startswith_dot(l) /\ has_0x(l) /\ Len(l.words) >= 3
       /\ ~not_hex(l.words[2]) /\ ~not_hex(l.words[3])
    THEN <<[name |-> l.words[1],
            address |-> hex08(hex_value[l.words[2]]),
            size |-> hex_value[l.words[3]],
            size_kb |-> <<hex_value[l.words[3]], "/", 1024>>]>>
    ELSE <<>>

\* The symbol a line adds to symbols: none, or one.
symbol_of(l) ==
    IF Len(l.words) > 0 /\ ~startswith_dot(l) /\ has_0x(l) /\ Len(l.words) >= 2
       /\ ~not_hex(l.words[Len(l.words) - 1])
       /\ (Len(l.words) >= 3 => ~not_hex(l.words[Len(l.words)]))
    THEN <<[name |-> JoinLines(SubSeq(l.words, 1,
                                      IF Len(l.words) > 3 THEN Len(l.words) - 2 ELSE 1), " "),
            address |-> hex08(hex_value[l.words[Len(l.words) - 1]]),
            size |-> IF Len(l.words) >= 3 THEN hex_value[l.words[Len(l.words)]] ELSE 0]>>
    ELSE <<>>

\* for line in lines: what has been appended to memory_regions / to symbols
\* (`of` is region_of or symbol_of) after the first n lines.
RECURSIVE collected(_, _, _)
collected(of(_), lines, n) ==
    IF n = 0 THEN <<>> ELSE collected(of, lines, n - 1) \o of(lines[n])

\* total_size += size, for every region appended.
RECURSIVE total_size(_)
total_size(regions) ==
    IF regions = <<>> THEN 0
    ELSE total_size(SubSeq(regions, 1, Len(regions) - 1)) + regions[Len(regions)].size

\* The sizes of the entries of a list.
sizes(list) == {list[i].size : i \in 1..Len(list)}

max(S) == CHOOSE x \in S : \A y \in S : y <= x
min(S) == CHOOSE x \in S : \A y \in S : x <= y

\* sorted(symbols, key=size) without reverse=True: smallest first.
RECURSIVE sorted_ascending(_, _)
sorted_ascending(symbols, left) ==
    IF left = {} THEN <<>>
    ELSE SelectSeq(symbols, LAMBDA x : x.size = min(left))
         \o sorted_ascending(symbols, left \ {min(left)})

\* sorted(symbols, key=lambda x: x["size"], reverse=True): largest first,
\* symbols of equal size in the order they were appended.  `left` is the
\* set of sizes still to place.
RECURSIVE sorted_by_size(_, _)
sorted_by_size(symbols, left) ==
    IF left = {} THEN <<>>
    ELSE SelectSeq(symbols, LAMBDA x : x.size = max(left))
         \o sorted_by_size(symbols, left \ {max(left)})

\* The length sorted(...)[:50] cuts to.
MaxTopSymbols == 50

\* max(memory_regions, key=size) / min(...): the first region of that size.
first_of_size(regions, size) ==
    IF regions = <<>> THEN None
    ELSE regions[CHOOSE i \in 1..Len(regions) :
                    /\ regions[i].size = size
                    /\ \A j \in 1..(i - 1) : regions[j].size # size]

\* The result dict of analyze_memory_map.
memory_map_result(map_path, memory_regions, symbols) ==
    [map_path |-> map_path,
     summary |-> [total_regions |-> Len(memory_regions),
                  total_symbols |-> Len(symbols),
                  total_size |-> total_size(memory_regions),
                  total_size_kb |-> <<total_size(memory_regions), "/", 1024>>],
     memory_regions |-> memory_regions,
     top_symbols |-> Take(sorted_by_size(symbols, sizes(symbols)), MaxTopSymbols),
     analysis |->
        [largest_region |->
            first_of_size(memory_regions,
                          IF memory_regions = <<>> THEN 0 ELSE max(sizes(memory_regions))),
         smallest_region |->
            first_of_size(memory_regions,
                          IF memory_regions = <<>> THEN 0 ELSE min(sizes(memory_regions)))]]

\* handle_analyze_memory_map
handle_analyze_memory_map(args, files) ==
    IF get(args, "map_path", "") = "" \/ get(args, "map_path", "") \notin DOMAIN files
    THEN [error |-> "Memory map file does not exist: " \o get(args, "map_path", "")]
    ELSE [result |-> json_dumps(
            memory_map_result(args.map_path,
                collected(region_of, files[args.map_path], Len(files[args.map_path])),
                collected(symbol_of, files[args.map_path], Len(files[args.map_path]))))]

\* Lines of a map file: regions that parse and that do not, symbols of
\* several sizes and shapes, and lines that are neither.
MapLines ==
    {[indent |-> 0, words |-> <<".text", "0x0", "0x400">>],
     [indent |-> 0, words |-> <<".data", "0x400", "-0x10">>],
     [indent |-> 0, words |-> <<".bss", "0x10", "0xZZ">>],
     [indent |-> 1, words |-> <<".text", "0x0", "0x10">>],
     [indent |-> 0, words |-> <<"app_main", "0x0", "0x400">>],
     [indent |-> 0, words |-> <<"operator", "new", "0x10", "ff">>],
     [indent |-> 0, words |-> <<"0x10", "zz">>],
     [indent |-> 0, words |-> <<"main", "0x400">>],
     [indent |-> 0, words |-> <<"main", "0xZZ", "0x10">>],
     [indent |-> 0, words |-> <<"Memory", "Configuration">>]}

\* The longest run of equal lines in a map file.
MaxMapRun == 26

MemoryMaps == FilesOf(MapLines, MaxMapRun)

MemoryMapArgs == {[map_path |-> "app.map"], [map_path |-> "gone.map"], EmptyDict}

MemoryMapInit ==
    /\ Constructed
    /\ environ = ""
    /\ fs \in {"app.map" :> f : f \in MemoryMaps}

\* tools/call analyze_memory_map
AnalyzeMemoryMap ==
    /\ report = NoReport
    /\ \E args \in MemoryMapArgs :
        report' = [tool |-> "analyze_memory_map", args |-> args,
                   outcome |-> handle_analyze_memory_map(args, fs)]
    /\ UNCHANGED <<server, fs>>

MemoryMapNext == AnalyzeMemoryMap

MemoryMapSpec == MemoryMapInit /\ [][MemoryMapNext]_vars

(* compare_sdkconfig.  A key is the number of its name in the order
   sorted() puts the names in: key k is named CONFIG_<k as three digits>
   followed by the words of key_words(k), so that 'freq' in key.lower() is
   a test on key_words.  A line of a config file is a record: an assignment
   [key, value, quoted, padded], a comment, a blank line, or text without
   '='. *)

key_words(k) ==
    CASE k = 1 -> {"cpu", "freq"}
      [] k = 2 -> {"heap"}
      [] k = 3 -> {"log", "wifi"}
      [] OTHER -> {}

\* word in key.lower()
in_key(word, k) == word \in key_words(k)

\* _categorize_config
_categorize_config(key) ==
    IF in_key("wifi", key) THEN "WiFi"
    ELSE IF in_key("ble", key) \/ in_key("bluetooth", key) THEN "Bluetooth"
    ELSE IF in_key("cpu", key) \/ in_key("freq", key) THEN "Performance"
    ELSE IF in_key("heap", key) \/ in_key("memory", key) THEN "Memory"
    ELSE IF in_key("log", key) \/ in_key("debug", key) THEN "Debug"
    ELSE "General"

\* int(text), where it does not raise ValueError.
int_value == [v \in {"160", "240"} |-> IF v = "160" THEN 160 ELSE 240]

\* ValueError of int(text)
invalid_literal(v) ==
    [raised |-> TRUE, value |-> "invalid literal for int() with base 10: '" \o v \o "'"]

\* _config_recommendation: the string returned, or the ValueError of int().
_config_recommendation(key, old_val, new_val) ==
    IF in_key("freq", key)
    THEN IF new_val \notin DOMAIN int_value THEN invalid_literal(new_val)
         ELSE IF old_val \notin DOMAIN int_value THEN invalid_literal(old_val)
         ELSE [raised |-> FALSE,
               value |-> IF int_value[new_val] > int_value[old_val]
                         THEN "Increasing CPU frequency improves performance but increases power consumption"
                         ELSE "Decreasing CPU frequency saves power but reduces performance"]
    ELSE IF in_key("heap", key)
    THEN [raised |-> FALSE, value |-> "Heap size change may affect available memory for tasks"]
    ELSE IF in_key("log", key)
    THEN [raised |-> FALSE,
          value |-> IF new_val = "n"
                    THEN "Disabling logs saves flash space but makes debugging harder"
                    ELSE "Enabling logs helps debugging but uses more flash space"]
    ELSE [raised |-> FALSE, value |-> ""]

\* line and not line.startswith('#') and '=' in line, after line.strip()
assigns(l) == l.kind = "assign"

\* parse_config: key.strip() -> value.strip().strip('"'), a later line for a
\* key replacing an earlier one.
parse_config(lines) ==
    [k \in {lines[i].key : i \in {j \in 1..Len(lines) : assigns(lines[j])}} |->
        lines[max({i \in 1..Len(lines) : assigns(lines[i]) /\ lines[i].key = k})].value]

\* sorted(all_keys)
sorted(keys) ==
    IF keys = {} THEN <<>>
    ELSE SelectSeq([k \in 1..max(keys) |-> k], LAMBDA k : k \in keys)

\* [entry(key) for key in keys]
Map(keys, entry(_)) == [i \in 1..Len(keys) |-> entry(keys[i])]

\* The lengths added[:50], removed[:50] and modified[:100] cut to.
MaxAddedListed == 50
MaxRemovedListed == 50
MaxModifiedListed == 100

\* The loop over sorted(all_keys) with its first two tests exchanged in
\* effect: a key only in the second file is appended to removed, a key only
\* in the first file to added.
sdkconfig_diff_swapped(config1, config2, keys) ==
    [added |-> Map(SelectSeq(keys, LAMBDA k : k \notin DOMAIN config2),
                   LAMBDA k : [key |-> k, value |-> config1[k],
                               category |-> _categorize_config(k)]),
     removed |-> Map(SelectSeq(keys, LAMBDA k : k \notin DOMAIN config1),
                     LAMBDA k : [key |-> k, value |-> config2[k],
                                 category |-> _categorize_config(k)]),
     modified |-> Map(SelectSeq(keys, LAMBDA k : /\ k \in DOMAIN config1
                                                 /\ k \in DOMAIN config2
                                                 /\ config1[k] # config2[k]),
                      LAMBDA k : [key |-> k, old_value |-> config1[k],
                                  new_value |-> config2[k],
                                  category |-> _categorize_config(k),
                                  recommendation |->
                                      _config_recommendation(k, config1[k], config2[k])])]

\* The loop over sorted(all_keys) with "new_value": config1[key].
sdkconfig_diff_stale_new(config1, config2, keys) ==
    [added |-> Map(SelectSeq(keys, LAMBDA k : k \notin DOMAIN config1),
                   LAMBDA k : [key |-> k, value |-> config2[k],
                               category |-> _categorize_config(k)]),
     removed |-> Map(SelectSeq(keys, LAMBDA k : k \in DOMAIN config1 /\ k \notin DOMAIN config2),
                     LAMBDA k : [key |-> k, value |-> config1[k],
                                 category |-> _categorize_config(k)]),
     modified |-> Map(SelectSeq(keys, LAMBDA k : /\ k \in DOMAIN config1
                                                 /\ k \in DOMAIN config2
                                                 /\ config1[k] # config2[k]),
                      LAMBDA k : [key |-> k, old_value |-> config1[k],
                                  new_value |-> config1[k],
                                  category |-> _categorize_config(k),
                                  recommendation |->
                                      _config_recommendation(k, config1[k], config2[k])])]

\* The loop over sorted(all_keys): what it appends to added, removed and
\* modified.  `keys` is sorted(all_keys).
sdkconfig_diff(config1, config2, keys) ==
    [added |-> Map(SelectSeq(keys, LAMBDA k : k \notin DOMAIN config1),
                   LAMBDA k : [key |-> k, value |-> config2[k],
                               category |-> _categorize_config(k)]),
     removed |-> Map(SelectSeq(keys, LAMBDA k : k \in DOMAIN config1 /\ k \notin DOMAIN config2),
                     LAMBDA k : [key |-> k, value |-> config1[k],
                                 category |-> _categorize_config(k)]),
     modified |-> Map(SelectSeq(keys, LAMBDA k : /\ k \in DOMAIN config1
                                                 /\ k \in DOMAIN config2
                                                 /\ config1[k] # config2[k]),
                      LAMBDA k : [key |-> k, old_value |-> config1[k],
                                  new_value |-> config2[k],
                                  category |-> _categorize_config(k),
                                  recommendation |->
                                      _config_recommendation(k, config1[k], config2[k])])]

\* The exceptions _config_recommendation raised, in key order.
raised_in(modified) == SelectSeq(modified, LAMBDA e : e.recommendation.raised)

\* "recommendation": the string _config_recommendation returned
returned(e) == [e EXCEPT !.recommendation = e.recommendation.value]

\* The result dict of compare_sdkconfig, or the error of `except Exception`.
sdkconfig_result(config1_path, config2_path, all_keys, diff) ==
    IF raised_in(diff.modified) # <<>>
    THEN [error |-> "Unexpected error comparing sdkconfig files: "
                    \o raised_in(diff.modified)[1].recommendation.value]
    ELSE [result |-> json_dumps(
            [config1_path |-> config1_path,
             config2_path |-> config2_path,
             summary |-> [total_keys |-> Cardinality(all_keys),
                          added_count |-> Len(diff.added),
                          removed_count |-> Len(diff.removed),
                          modified_count |-> Len(diff.modified)],
             added |-> Take(diff.added, MaxAddedListed),
             removed |-> Take(diff.removed, MaxRemovedListed),
             modified |-> Take(Map(diff.modified, returned), MaxModifiedListed)])]

\* compare_sdkconfig on the two parsed configs.
compare_configs(config1_path, config2_path, config1, config2) ==
    sdkconfig_result(config1_path, config2_path, DOMAIN config1 \cup DOMAIN config2,
                     sdkconfig_diff(config1, config2,
                                    sorted(DOMAIN config1 \cup DOMAIN config2)))

\* handle_compare_sdkconfig
handle_compare_sdkconfig(args, files) ==
    IF get(args, "config1_path", "") = "" \/ get(args, "config1_path", "") \notin DOMAIN files
    THEN [error |-> "First sdkconfig file does not exist: " \o get(args, "config1_path", "")]
    ELSE IF get(args, "config2_path", "") = ""
            \/ get(args, "config2_path", "") \notin DOMAIN files
    THEN [error |-> "Second sdkconfig file does not exist: " \o get(args, "config2_path", "")]
    ELSE compare_configs(args.config1_path, args.config2_path,
                         parse_config(files[args.config1_path]),
                         parse_config(files[args.config2_path]))

\* The number of keys that only the bulk of a config file assigns.
MaxBulk == 101

AssignLine(k, v) ==
    [kind |-> "assign", key |-> k, value |-> v, quoted |-> v = "fast", padded |-> k = 1]

\* The first keys of a config: none, key 1, key 3 or keys 1..3, each with
\* one of its values.
Heads ==
    {h \in UNION {[D -> {"160", "240", "fast", "4096", "n", "y"}] :
                    D \in {{}, {1}, {3}, {1, 2, 3}}} :
        /\ 1 \in DOMAIN h => h[1] \in {"160", "240", "fast"}
        /\ 2 \in DOMAIN h => h[2] = "4096"
        /\ 3 \in DOMAIN h => h[3] \in {"n", "y"}}

\* A config file: a comment and a blank line, the head keys from last to
\* first (key 3 assigned twice), then n more keys with the same value, then a
\* line without '='.
ConfigFile(h, n, v) ==
    <<[kind |-> "comment"], [kind |-> "blank"]>>
    \o (IF 3 \in DOMAIN h THEN <<AssignLine(3, "stale"), AssignLine(3, h[3])>> ELSE <<>>)
    \o (IF 2 \in DOMAIN h THEN <<AssignLine(2, h[2])>> ELSE <<>>)
    \o (IF 1 \in DOMAIN h THEN <<AssignLine(1, h[1])>> ELSE <<>>)
    \o [i \in 1..n |-> AssignLine(3 + i, v)]
    \o <<[kind |-> "text"]>>

\* How the bulk keys of the two files differ: <<n1, v1, n2, v2>>.
Bulks ==
    {<<0, "1", 0, "1">>}
    \cup UNION {{<<0, "1", n, "1">>, <<n, "1", 0, "1">>, <<n, "1", n, "2">>, <<n, "1", n, "1">>} :
                    n \in {MaxBulk - 50, MaxBulk}}

ConfigPairs ==
    {("sdkconfig.a" :> ConfigFile(h1, b[1], b[2])) @@ ("sdkconfig.b" :> ConfigFile(h2, b[3], b[4])) :
        h1 \in Heads, h2 \in Heads, b \in Bulks}

SdkconfigArgs ==
    {[config1_path |-> "sdkconfig.a", config2_path |-> "sdkconfig.b"],
     [config1_path |-> "sdkconfig.b", config2_path |-> "sdkconfig.a"],
     [config1_path |-> "sdkconfig.a", config2_path |-> "sdkconfig.gone"],
     [config2_path |-> "sdkconfig.b"]}

SdkconfigInit ==
    /\ Constructed
    /\ environ = ""
    /\ fs \in ConfigPairs

\* tools/call compare_sdkconfig
CompareSdkconfig ==
    /\ report = NoReport
    /\ \E args \in SdkconfigArgs :
        report' = [tool |-> "compare_sdkconfig", args |-> args,
                   outcome |-> handle_compare_sdkconfig(args, fs)]
    /\ UNCHANGED <<server, fs>>

SdkconfigNext == CompareSdkconfig

SdkconfigSpec == SdkconfigInit /\ [][SdkconfigNext]_vars

(* analyze_dependencies.  A project is the sequence of its components in
   the order os.walk finds their CMakeLists.txt; the text of a CMakeLists.txt
   is a sequence of clauses [keyword, words].  A dependency is [name,
   private]: the string name, or name followed by " (private)".  A dict is
   [keys, of]: its keys in insertion order and the value of each. *)

\* re.findall(r'REQUIRES\s+([^\s\n]+)', content): the first word after every
\* keyword that ends in REQUIRES (PRIV_REQUIRES does).
requires_matches(content) ==
    Map(SelectSeq(content, LAMBDA c : c.keyword \in {"REQUIRES", "PRIV_REQUIRES"}
                                      /\ c.words # <<>>),
        LAMBDA c : [name |-> c.words[1], private |-> FALSE])

\* re.findall(r'PRIV_REQUIRES\s+([^\s\n]+)', content), each as f"{d} (private)"
priv_requires_matches(content) ==
    Map(SelectSeq(content, LAMBDA c : c.keyword = "PRIV_REQUIRES" /\ c.words # <<>>),
        LAMBDA c : [name |-> c.words[1], private |-> TRUE])

\* deps of one CMakeLists.txt
deps_of(content) == requires_matches(content) \o priv_requires_matches(content)

\* The `dependencies` dict: a key for every component whose deps is not empty.
dependencies(project) ==
    [keys |-> Map(SelectSeq(project, LAMBDA c : deps_of(c.content) # <<>>),
                  LAMBDA c : c.name),
     of |-> [n \in {project[i].name : i \in {j \in 1..Len(project) :
                                               deps_of(project[j].content) # <<>>}} |->
                deps_of((CHOOSE c \in {project[i] : i \in 1..Len(project)} :
                            c.name = n).content)]]

\* deps.get(node, [])
deps_get(deps, node) == IF node \in DOMAIN deps.of THEN deps.of[node] ELSE <<>>

\* dep.replace(' (private)', '').strip()
dep_clean(dep) == dep.name

\* path.index(node)
index(path, node) == min({i \in 1..Len(path) : path[i] = node})

\* dfs(node, path) of _detect_circular_deps, on the state [visited, rec_stack,
\* circular] it shares with the other calls; dfs_each is its loop over
\* deps.get(node, []) from the i-th dependency on.
RECURSIVE dfs(_, _, _, _)
RECURSIVE dfs_each(_, _, _, _, _)

\* dfs with `if node in visited` tested before `if node in rec_stack`.
dfs_visited_first(deps, node, path, st) ==
    IF node \in st.visited THEN st
    ELSE IF node \in st.rec_stack
    THEN [st EXCEPT !.circular =
            Append(@, SubSeq(path, index(path, node), Len(path)) \o <<node>>)]
    ELSE [dfs_each(deps, node, path \o <<node>>, 1,
                   [st EXCEPT !.visited = @ \cup {node}, !.rec_stack = @ \cup {node}])
            EXCEPT !.rec_stack = @ \ {node}]

dfs(deps, node, path, st) ==
    IF node \in st.rec_stack
    THEN [st EXCEPT !.circular =
            Append(@, SubSeq(path, index(path, node), Len(path)) \o <<node>>)]
    ELSE IF node \in st.visited THEN st
    ELSE [dfs_each(deps, node, path \o <<node>>, 1,
                   [st EXCEPT !.visited = @ \cup {node}, !.rec_stack = @ \cup {node}])
            EXCEPT !.rec_stack = @ \ {node}]

dfs_each(deps, node, path, i, st) ==
    IF i > Len(deps_get(deps, node)) THEN st
    ELSE dfs_each(deps, node, path, i + 1,
                  dfs(deps, dep_clean(deps_get(deps, node)[i]), path, st))

\* for node in deps: dfs(node, []), from the i-th key on.
RECURSIVE dfs_from(_, _, _)
dfs_from(deps, i, st) ==
    IF i > Len(deps.keys) THEN st
    ELSE dfs_from(deps, i + 1, dfs(deps, deps.keys[i], <<>>, st))

\* _detect_circular_deps
_detect_circular_deps(deps) ==
    dfs_from(deps, 1, [visited |-> {}, rec_stack |-> {}, circular |-> <<>>]).circular

\* What get_depth gives: a depth and the memo, or the RecursionError that
\* ends a recursion that never returns.
Depth(depth, memo) == [raised |-> FALSE, depth |-> depth, memo |-> memo]
RecursionError == [raised |-> TRUE, depth |-> -1, memo |-> EmptyDict]

\* get_depth(node) of _calculate_max_depth.  `stack` holds the nodes whose
\* calls have not returned: a call for one of them repeats the calls made
\* since, without end, until Python raises RecursionError.  depth_each is the
\* loop over node_deps from the i-th dependency on, with max_child_depth.
RECURSIVE get_depth(_, _, _, _)
RECURSIVE depth_each(_, _, _, _, _, _)
\* get_depth with a guard: a node whose call has not returned counts as 0.
get_depth_guarded(deps, node, memo, stack) ==
    IF node \in DOMAIN memo THEN Depth(memo[node], memo)
    ELSE IF deps_get(deps, node) = <<>> THEN Depth(0, memo)
    ELSE IF node \in stack THEN Depth(0, memo)
    ELSE depth_each(deps, node, 1, 0, memo, stack \cup {node})

get_depth(deps, node, memo, stack) ==
    IF node \in DOMAIN memo THEN Depth(memo[node], memo)
    ELSE IF deps_get(deps, node) = <<>> THEN Depth(0, memo)
    ELSE IF node \in stack THEN RecursionError
    ELSE depth_each(deps, node, 1, 0, memo, stack \cup {node})

depth_each(deps, node, i, max_child_depth, memo, stack) ==
    IF i > Len(deps_get(deps, node))
    THEN Depth(max_child_depth + 1, (node :> (max_child_depth + 1)) @@ memo)
    ELSE LET child == get_depth(deps, dep_clean(deps_get(deps, node)[i]), memo, stack)
         IN  IF child.raised THEN RecursionError
             ELSE depth_each(deps, node, i + 1,
                             IF child.depth > max_child_depth THEN child.depth
                             ELSE max_child_depth,
                             child.memo, stack)

\* for node in deps: max_depth = max(max_depth, get_depth(node)), from the
\* i-th key on.
RECURSIVE max_depth_from(_, _, _, _)
max_depth_from(deps, i, max_depth, memo) ==
    IF i > Len(deps.keys) THEN Depth(max_depth, memo)
    ELSE LET d == get_depth(deps, deps.keys[i], memo, {})
         IN  IF d.raised THEN RecursionError
             ELSE max_depth_from(deps, i + 1,
                                 IF d.depth > max_depth THEN d.depth ELSE max_depth, d.memo)

\* _calculate_max_depth counting the nodes of the longest path.
_calculate_max_depth_nodes(deps) ==
    IF max_depth_from(deps, 1, 0, EmptyDict).raised THEN RecursionError
    ELSE Depth(max_depth_from(deps, 1, 0, EmptyDict).depth + 1, EmptyDict)

\* _calculate_max_depth
_calculate_max_depth(deps) == max_depth_from(deps, 1, 0, EmptyDict)

\* The names of components, in the order sorted() puts them in.
Alphabet == <<"a", "b", "c", "d", "n1", "n2", "n3", "n4", "n5", "n6", "n7", "n8", "n9">>

\* sorted(all_components)
sorted_names(names) == SelectSeq(Alphabet, LAMBDA n : n \in names)

\* component_info: "has_circular" is `comp in circular_deps`, a string looked
\* up in a list of lists, which is never found.
component_info(project, deps) ==
    Map(sorted_names({project[i].name : i \in 1..Len(project)}),
        LAMBDA comp : [name |-> comp,
                       dependencies |-> deps_get(deps, comp),
                       dependency_count |-> Len(deps_get(deps, comp)),
                       is_leaf |-> Len(deps_get(deps, comp)) = 0,
                       has_circular |-> FALSE])

\* The depth above which the deep-chain advisory is given.
DeepChain == 5

\* result["recommendations"]
recommendations(circular_deps, max_depth) ==
    (IF circular_deps # <<>>
     THEN <<"Circular dependencies detected - this may cause build issues">>
     ELSE <<>>)
    \o (IF max_depth > DeepChain
        THEN <<"Deep dependency chain detected (depth " \o ToString(max_depth)
               \o ") - consider refactoring">>
        ELSE <<>>)

\* analyze_dependencies on the project read: the result dict, or the error
\* `except Exception` makes of an exception.
dependencies_result(project_path, project, deps, circular_deps, max_depth) ==
    IF max_depth.raised
    THEN [error |-> "Unexpected error analyzing dependencies: "
                    \o "maximum recursion depth exceeded"]
    ELSE [result |-> json_dumps(
            [project_path |-> project_path,
             summary |-> [total_components |->
                             Cardinality({project[i].name : i \in 1..Len(project)}),
                          components_with_deps |-> Len(deps.keys),
                          circular_dependencies |-> Len(circular_deps),
                          max_dependency_depth |-> max_depth.depth],
             components |-> component_info(project, deps),
             circular_dependencies |-> circular_deps,
             recommendations |-> recommendations(circular_deps, max_depth.depth)])]

\* handle_analyze_dependencies
handle_analyze_dependencies(args, files) ==
    IF get(args, "project_path", "") = "" \/ get(args, "project_path", "") \notin DOMAIN files
    THEN [error |-> "Project path does not exist: " \o get(args, "project_path", "")]
    ELSE dependencies_result(args.project_path, files[args.project_path],
                             dependencies(files[args.project_path]),
                             _detect_circular_deps(dependencies(files[args.project_path])),
                             _calculate_max_depth(dependencies(files[args.project_path])))

\* The longest chain of components, each requiring the next.
MaxChain == 6

Requires(x) == [keyword |-> "REQUIRES", words |-> <<x>>]
PrivRequires(x) == [keyword |-> "PRIV_REQUIRES", words |-> <<x>>]
Sources == [keyword |-> "SRCS", words |-> <<"main.c">>]

\* What a CMakeLists.txt of a small project holds.
Contents ==
    {<<Sources>>, <<[keyword |-> "REQUIRES", words |-> <<>>]>>}
    \cup {<<Sources, [keyword |-> "REQUIRES", words |-> <<x, "esp_wifi">>]>> : x \in {"a", "b", "c", "d"}}
    \cup {<<PrivRequires(x)>> : x \in {"a", "b", "c"}}
    \cup {<<Requires(x[1]), PrivRequires(x[2])>> :
            x \in {<<"a", "b">>, <<"b", "c">>, <<"c", "a">>, <<"b", "d">>}}

\* Components a, b, c found in this order or the reverse.
SmallProjects ==
    {<<>>}
    \cup {<<[name |-> "a", content |-> x]>> : x \in Contents}
    \cup {<<[name |-> "a", content |-> x], [name |-> "b", content |-> y],
            [name |-> "c", content |-> z]>> : x, y, z \in Contents}
    \cup {<<[name |-> "c", content |-> z], [name |-> "b", content |-> y],
            [name |-> "a", content |-> x]>> : x, y, z \in Contents}

\* n1 requires n2 requires ... up to n components, the last requiring `tip`.
Chain(n, tip) ==
    [i \in 1..n |-> [name |-> "n" \o ToString(i),
                     content |-> <<Requires(IF i = n THEN tip
                                            ELSE "n" \o ToString(i + 1))>>]]

ChainProjects ==
    {Chain(n, tip) : n \in 1..MaxChain, tip \in {"d", "n1", "n2"}}

Projects == {"proj" :> x : x \in SmallProjects \cup ChainProjects}

DependencyArgs == {[project_path |-> "proj"], [project_path |-> "gone"], EmptyDict}

DependencyInit ==
    /\ Constructed
    /\ environ = ""
    /\ fs \in Projects

\* _detect_circular_deps(dependencies)
DetectCircularDeps ==
    /\ report = NoReport
    /\ report' = [tool |-> "_detect_circular_deps",
                  args |-> [deps |-> dependencies(fs.proj)],
                  outcome |-> [circular |-> _detect_circular_deps(dependencies(fs.proj))]]
    /\ UNCHANGED <<server, fs>>

\* _calculate_max_depth(dependencies)
CalculateMaxDepth ==
    /\ report = NoReport
    /\ report' = [tool |-> "_calculate_max_depth",
                  args |-> [deps |-> dependencies(fs.proj)],
                  outcome |-> [raised |-> _calculate_max_depth(dependencies(fs.proj)).raised,
                               max_depth |-> _calculate_max_depth(dependencies(fs.proj)).depth]]
    /\ UNCHANGED <<server, fs>>

\* tools/call analyze_dependencies
AnalyzeDependencies ==
    /\ report = NoReport
    /\ \E args \in DependencyArgs :
        report' = [tool |-> "analyze_dependencies", args |-> args,
                   outcome |-> handle_analyze_dependencies(args, fs)]
    /\ UNCHANGED <<server, fs>>

DependencyNext ==
    \/ DetectCircularDeps
    \/ CalculateMaxDepth
    \/ AnalyzeDependencies

DependencySpec == DependencyInit /\ [][DependencyNext]_vars

(* format_device_log.  A line of a device log is [indent, head, words]:
   `head` is <<>> or the <<level char, timestamp, tag>> of a line that starts
   "<char> (<timestamp>) <tag>: ", and `words` are the fragments of the rest.
   A level name or keyword occurs in a line when it is one of its fragments
   (lowercased, for the tests on line_stripped.lower()). *)

\* str.upper, on the filter levels given in lower or mixed case.
upper(s) ==
    CASE s = "error" -> "ERROR"
      [] s = "Info" -> "INFO"
      [] s = "other" -> "OTHER"
      [] OTHER -> s

\* str.lower, on the fragments of device lines that have capitals.
device_lower(w) ==
    CASE w = "ERROR" -> "error"
      [] w = "WARNING" -> "warning"
      [] w = "INFO" -> "info"
      [] w = "DEBUG" -> "debug"
      [] w = "Guru" -> "guru"
      [] OTHER -> w

\* not line_stripped
is_blank(l) == l.head = <<>> /\ l.words = <<>>

\* line_stripped = line.strip()
line_stripped(l) == [head |-> l.head, words |-> l.words]

\* for lvl in ["ERROR", "WARNING", "INFO", "DEBUG", "VERBOSE"]
DeviceLevels == <<"ERROR", "WARNING", "INFO", "DEBUG", "VERBOSE">>

\* lvl in line_stripped
level_in(lvl, l) == \E i \in 1..Len(l.words) : l.words[i] = lvl

\* The level the for / break loop leaves: the first of DeviceLevels found in
\* the line, "OTHER" when none is.
coarse_level(l) ==
    IF \E i \in 1..Len(DeviceLevels) : level_in(DeviceLevels[i], l)
    THEN DeviceLevels[min({i \in 1..Len(DeviceLevels) : level_in(DeviceLevels[i], l)})]
    ELSE "OTHER"

\* level_map
level_map ==
    [c \in {"E", "W", "I", "D", "V"} |->
        CASE c = "E" -> "ERROR"
          [] c = "W" -> "WARNING"
          [] c = "I" -> "INFO"
          [] c = "D" -> "DEBUG"
          [] c = "V" -> "VERBOSE"]

\* \d+
is_decimal(t) == t \in {"7", "45", "123"}

\* re.match(r'([EIWDV]) \((\d+)\) ([^:]+): (.+)', line_stripped)
match(l) ==
    /\ l.head # <<>>
    /\ l.head[1] \in DOMAIN level_map
    /\ is_decimal(l.head[2])
    /\ l.words # <<>>

\* `level` after the structured match: level_map.get(level_char, level)
resolved_level(l) == IF match(l) THEN level_map[l.head[1]] ELSE coarse_level(l)

CrashKeywords == {"assert", "abort", "guru", "panic", "stack trace", "backtrace"}

\* any(keyword in line_stripped.lower() for keyword in [...])
is_crash(l) ==
    \E i \in 1..Len(l.words) : device_lower(l.words[i]) \in CrashKeywords

\* "error" in line_stripped.lower()
has_error_text(l) == \E i \in 1..Len(l.words) : device_lower(l.words[i]) = "error"

\* is_error = level == "ERROR" or "error" in line_stripped.lower()
is_error(l) == resolved_level(l) = "ERROR" \/ has_error_text(l)

\* entry, for a line that is not blank
device_entry(l) ==
    [level |-> resolved_level(l),
     timestamp |-> IF match(l) THEN l.head[2] ELSE "",
     tag |-> IF match(l) THEN l.head[3] ELSE "",
     message |-> IF match(l) THEN [head |-> <<>>, words |-> l.words] ELSE line_stripped(l),
     is_crash |-> is_crash(l),
     is_error |-> is_error(l)]

\* The filter test with the level the for / break loop found.
retained_by_coarse_level(l, filter_level) ==
    filter_level = "" \/ coarse_level(l) = filter_level

\* if not filter_level or level == filter_level or filter_level == ""
retained(l, filter_level) == filter_level = "" \/ resolved_level(l) = filter_level

\* level_counts after the loop: level_counts[level] += 1 comes before the
\* structured match, with the level the for / break loop found.
level_counts(lines) ==
    [L \in {"ERROR", "WARNING", "INFO", "DEBUG", "VERBOSE", "OTHER"} |->
        Len(SelectSeq(lines, LAMBDA l : ~is_blank(l) /\ coarse_level(l) = L))]

\* log_entries after the loop
device_log_entries(lines, filter_level) ==
    Map(SelectSeq(lines, LAMBDA l : ~is_blank(l) /\ retained(l, filter_level)),
        device_entry)

\* The lengths log_entries[:200], crashes[:10] and errors[:20] cut to.
MaxEntriesListed == 200
MaxCrashesListed == 10
MaxDeviceErrorsListed == 20

\* The ERROR count above which the error-pattern advisory is given.
HighErrorCount == 10

\* recommendations
device_recommendations(crashes, errors, counts) ==
    (IF crashes # <<>>
     THEN <<"Found " \o ToString(Len(crashes)) \o " crash(es) - review stack traces">>
     ELSE <<>>)
    \o (IF errors # <<>>
        THEN <<"Found " \o ToString(Len(errors)) \o " error(s) - review error messages">>
        ELSE <<>>)
    \o (IF counts["ERROR"] > HighErrorCount
        THEN <<"High error count detected - investigate error patterns">>
        ELSE <<>>)

\* The result dict of format_device_log.
device_log_result(log_path, lines, entries, crashes, errors, counts) ==
    [log_path |-> log_path,
     summary |-> [total_lines |-> Len(lines),
                  total_entries |-> Len(entries),
                  level_counts |-> counts,
                  crashes_count |-> Len(crashes),
                  errors_count |-> Len(errors)],
     entries |-> Take(entries, MaxEntriesListed),
     crashes |-> Take(crashes, MaxCrashesListed),
     errors |-> Take(errors, MaxDeviceErrorsListed),
     recommendations |-> device_recommendations(crashes, errors, counts)]

\* The try block of format_device_log on the lines read.
format_lines(log_path, lines, entries) ==
    device_log_result(log_path, lines, entries,
                      SelectSeq(entries, LAMBDA e : e.is_crash),
                      SelectSeq(entries, LAMBDA e : e.is_error),
                      level_counts(lines))

\* handle_format_device_log
handle_format_device_log(args, files) ==
    IF get(args, "log_path", "") = "" \/ get(args, "log_path", "") \notin DOMAIN files
    THEN [error |-> "Device log file does not exist: " \o get(args, "log_path", "")]
    ELSE [result |-> json_dumps(
            format_lines(args.log_path, files[args.log_path],
                         device_log_entries(files[args.log_path],
                                            upper(get(args, "filter_level", "")))))]

\* The longest run of equal lines in a device log.
MaxLogRun == 201

DeviceLine(indent, head, words) == [indent |-> indent, head |-> head, words |-> words]

\* Lines of a device log: blank; structured, with and without a level name
\* or 'error' in the message; unstructured, with a level name, with 'error'
\* and a crash keyword, with neither; with a head that is no level char.
DeviceLogLines ==
    {DeviceLine(0, <<>>, <<>>),
     DeviceLine(0, <<"E", "123", "wifi">>, <<"abort", "connect">>),
     DeviceLine(2, <<>>, <<"ERROR", "flash", "read">>),
     DeviceLine(0, <<"I", "45", "main">>, <<"ERROR", "count", "0">>),
     DeviceLine(0, <<>>, <<"Guru", "Meditation", "error">>),
     DeviceLine(0, <<"W", "7", "heap">>, <<"WARNING", "low", "heap">>),
     DeviceLine(0, <<>>, <<"boot", "ok">>),
     DeviceLine(0, <<"X", "45", "app">>, <<"DEBUG", "INFO">>)}

\* Device logs of at most two runs.
DeviceLogs ==
    {<<>>} \cup Runs(DeviceLogLines, MaxLogRun)
    \cup {a \o b : a, b \in Runs(DeviceLogLines, MaxLogRun)}

DeviceLogArgs ==
    {[log_path |-> "device.log"],
     [log_path |-> "device.log", filter_level |-> "error"],
     [log_path |-> "device.log", filter_level |-> "Info"],
     [log_path |-> "device.log", filter_level |-> "other"],
     [log_path |-> "gone.log", filter_level |-> "ERROR"]}

DeviceLogInit ==
    /\ Constructed
    /\ environ = ""
    /\ fs \in {"device.log" :> f : f \in DeviceLogs}

\* tools/call format_device_log
FormatDeviceLog ==
    /\ report = NoReport
    /\ \E args \in DeviceLogArgs :
        report' = [tool |-> "format_device_log", args |-> args,
                   outcome |-> handle_format_device_log(args, fs)]
    /\ UNCHANGED <<server, fs>>

DeviceLogNext == FormatDeviceLog

DeviceLogSpec == DeviceLogInit /\ [][DeviceLogNext]_vars

----------------------------------------------------------------------------
(* Properties *)

\* `line` has been handled (the loop is back at readline or has ended).
Handled == pc # "handle" /\ request_count > 0

\* `line` decoded to a JSON object; its fields as handle_request reads them.
IsRequest == line.raw = "json" /\ line.doc.t = "obj"
Request == line.doc.v
Method == get(Request, "method", JStr(""))
Params == get(Request, "params", JObj(EmptyDict))
ToolName == get(Params.v, "name", JStr(""))
IsToolsCall == IsRequest /\ EqStr(Method, "tools/call")
KnownMethod ==
    \E m \in {"initialize", "notifications/initialized", "tools/list", "tools/call"} :
        EqStr(Method, m)
Registered(name) == name.t = "str" /\ name.v \in handlers

\* The response lines written for `line`.
Answers == {i \in 1..Len(stdout) : stdout[i].seq = request_count}

\* C1: every request that carries an id, whatever its method and the shape
\* of its params, is answered by exactly one response line, with the same id.
C1_OneResponseSameId ==
    (Handled /\ IsRequest /\ "id" \in DOMAIN Request) =>
        /\ Cardinality(Answers) = 1
        /\ \A i \in Answers : stdout[i].msg.id = Request.id

\* C2: a request without an id field, whatever its method, gets no response
\* line.
C2_NoResponseWithoutId ==
    (Handled /\ IsRequest /\ "id" \notin DOMAIN Request) => Answers = {}

\* C3: the response to a line is written and flushed before the next line is
\* read: nothing is ever left unflushed, a response on stdout answers a line
\* already read (and, while a line is being handled, an earlier one), each line
\* has at most one response and the responses are in the order of their lines.
C3_ResponseBeforeNextRead ==
    /\ buffer = <<>>
    /\ \A i \in 1..Len(stdout) :
          /\ stdout[i].seq \in 1..request_count
          /\ pc = "handle" => stdout[i].seq < request_count
    /\ \A i, j \in 1..Len(stdout) : i < j => stdout[i].seq < stdout[j].seq

\* Two lines were read and both were answered, in order.
C3_Witness ==
    /\ pc = "read"
    /\ Len(stdout) = 2
    /\ stdout[1].seq = 1
    /\ stdout[2].seq = 2

\* C4: a line that fails JSON decoding is logged and skipped: handling it
\* writes nothing, leaves the process state as it was and returns to readline,
\* so the lines after it are handled from the state the lines before it left.
C4_MalformedLineSkipped ==
    [][(pc = "handle" /\ line.raw # "json") =>
          /\ pc' = "read"
          /\ UNCHANGED <<stdout, buffer, os, environ, request_count>>
          /\ ~last'.answered
          /\ last'.log = "Failed to decode JSON"]_vars

\* A line failed to decode and a later line was answered.
C4_Witness ==
    \E i \in 1..Len(stderr), j \in 1..Len(stdout) :
        /\ stderr[i].text = "Failed to decode JSON"
        /\ stderr[i].seq < stdout[j].seq

\* handle_request raises on `line`: the decoded value is no object, or the
\* method is tools/call and params is no object.
RaisesOnShape ==
    /\ line.raw = "json"
    /\ \/ line.doc.t # "obj"
       \/ IsToolsCall /\ Params.t # "obj"

\* C5: when handling a decoded request raises (as it does when the decoded
\* value is not an object or the params of a tools/call are not an object), the
\* exception is logged, no response line is written and the loop goes back to
\* readline.
C5_ExceptionDropped ==
    [][pc = "handle" =>
          /\ RaisesOnShape => last'.log = "Critical Error"
          /\ last'.log = "Critical Error" =>
                /\ pc' = "read"
                /\ UNCHANGED <<stdout, buffer>>
                /\ ~last'.answered]_vars

\* A request was dropped on an exception and a later line was answered.
C5_Witness ==
    \E i \in 1..Len(stderr), j \in 1..Len(stdout) :
        /\ stderr[i].text = "Critical Error"
        /\ stderr[i].seq < stdout[j].seq

\* C6: a request whose method is none of initialize, notifications/initialized,
\* tools/list, tools/call is answered by one response that holds an error with
\* code -32601 and message "Method not found: <method>" and no result; no tool
\* handler is invoked.
C6_MethodNotFound ==
    (Handled /\ IsRequest /\ ~KnownMethod) =>
        /\ Cardinality(Answers) = 1
        /\ last.call = NoCall
        /\ \A i \in Answers :
              /\ DOMAIN stdout[i].msg = {"jsonrpc", "id", "error"}
              /\ stdout[i].msg.error.code = -32601
              /\ stdout[i].msg.error.message = "Method not found: " \o str(Method)

\* The method "ping" was answered.
C6_Witness ==
    Handled /\ IsRequest /\ EqStr(Method, "ping") /\ last.answered

\* C7: a tools/call whose name is not in the handler table invokes no handler
\* and is answered by a result (no JSON-RPC error) with isError true and the
\* single text content "Error: Unknown tool: <name>".
C7_UnknownTool ==
    (Handled /\ IsToolsCall /\ Params.t = "obj" /\ ~Registered(ToolName)) =>
        /\ Cardinality(Answers) = 1
        /\ last.call.invoked = ""
        /\ \A i \in Answers :
              /\ DOMAIN stdout[i].msg = {"jsonrpc", "id", "result"}
              /\ stdout[i].msg.result.isError = TRUE
              /\ stdout[i].msg.result.content =
                    <<[type |-> "text", text |-> "Error: Unknown tool: " \o str(ToolName)]>>

\* C8: a tools/call whose params is an object and whose name is registered
\* is answered by a result with exactly one text content item and a boolean
\* isError, never a JSON-RPC error; isError is true exactly when the handler
\* returned {error} or raised, false exactly when it returned {result}.
C8_ToolEnvelope ==
    (Handled /\ IsToolsCall /\ Params.t = "obj" /\ Registered(ToolName)) =>
        /\ Cardinality(Answers) = 1
        /\ last.call.invoked = ToolName.v
        /\ last.call.ended \in {"result", "error", "raised"}
        /\ \A i \in Answers :
              /\ DOMAIN stdout[i].msg = {"jsonrpc", "id", "result"}
              /\ Len(stdout[i].msg.result.content) = 1
              /\ stdout[i].msg.result.content[1].type = "text"
              /\ stdout[i].msg.result.isError \in BOOLEAN
              /\ stdout[i].msg.result.isError <=> last.call.ended \in {"error", "raised"}
              /\ ~stdout[i].msg.result.isError <=> last.call.ended = "result"

\* A registered handler raised and the call was answered with isError true.
C8_Witness ==
    /\ Handled /\ IsToolsCall /\ Params.t = "obj" /\ Registered(ToolName)
    /\ last.call.ended = "raised"
    /\ \E i \in Answers : stdout[i].msg.result.isError

\* C9: when the external command a tool runs exits with a non-zero code or
\* hits its timeout, the outcome of the call is {error} and the response has
\* isError true.
C9_CommandFailureIsError ==
    (Handled /\ last.call.ran /\ last.call.returncode # 0) =>
        /\ last.call.ended = "error"
        /\ \A i \in Answers : stdout[i].msg.result.isError

\* C10: handling a request leaves the process state a later request can
\* observe as it was: after any tools/call the working directory is the one the
\* server was started in.
C10_WorkingDirectoryKept ==
    os.cwd = StartDir

\* The responses on stdout that list the registry.
ToolLists ==
    {i \in 1..Len(stdout) :
        /\ "result" \in DOMAIN stdout[i].msg
        /\ DOMAIN stdout[i].msg.result = {"tools"}}

\* C11: whatever requests came before, initialize answers with
\* protocolVersion "2024-11-05" and capabilities.tools the empty object, and
\* tools/list answers with the whole registry in registry order, whose tool
\* names are pairwise distinct; any two tools/list answers of a run are equal.
C11_IntrospectionFixed ==
    /\ (Handled /\ IsRequest /\ EqStr(Method, "initialize")) =>
          /\ Answers # {}
          /\ \A i \in Answers :
                /\ stdout[i].msg.result.protocolVersion = "2024-11-05"
                /\ stdout[i].msg.result.capabilities.tools = EmptyDict
    /\ (Handled /\ IsRequest /\ EqStr(Method, "tools/list")) =>
          /\ Answers # {}
          /\ Answers \subseteq ToolLists
    /\ \A i \in ToolLists : stdout[i].msg.result.tools = TOOLS
    /\ \A i, j \in ToolLists : stdout[i].msg.result = stdout[j].msg.result
    /\ \A i, j \in 1..Len(TOOLS) : i # j => TOOLS[i] # TOOLS[j]

\* tools/list was answered a second time, after another answer to it.
C11_Witness ==
    /\ Handled /\ IsRequest /\ EqStr(Method, "tools/list")
    /\ Cardinality(ToolLists) = 2

\* parse_build_log returned a result for the log it was given.
BuildLogParsed ==
    report.tool = "parse_build_log" /\ "result" \in DOMAIN report.outcome

BuildLog == fs[report.args.log_path]
BuildLogReport == report.outcome.result.json

\* The numbers of the lines of the log in which a keyword of `keywords` occurs.
LinesWith(keywords) == {i \in 1..Len(BuildLog) : any_keyword(keywords, BuildLog[i])}

\* The line numbers of the entries of a list.
LineNumbers(list) == {list[k].line : k \in 1..Len(list)}

\* C12: parse_build_log puts a line into at most one of the error, warning
\* and info buckets, error before warning before info: a line counts as an
\* error when it has an error keyword, as a warning when it has a warning
\* keyword and no error keyword, as info when it has an info keyword and
\* neither of the others.  So the three counts add up to at most total_lines
\* and what remains is the number of lines with no keyword at all.
C12_OneBucketPerLine ==
    BuildLogParsed =>
        LET r == BuildLogReport
            E == LinesWith(ErrorKeywords)
            W == LinesWith(WarningKeywords)
            I == LinesWith(InfoKeywords)
        IN  /\ r.summary.total_lines = Len(BuildLog)
            /\ r.summary.errors_count = Cardinality(E)
            /\ r.summary.warnings_count = Cardinality(W \ E)
            /\ r.summary.info_count = Cardinality(I \ (W \cup E))
            /\ r.summary.errors_count + r.summary.warnings_count + r.summary.info_count
                  <= r.summary.total_lines
            /\ r.summary.total_lines
                  - (r.summary.errors_count + r.summary.warnings_count + r.summary.info_count)
                  = Cardinality((1..Len(BuildLog)) \ (E \cup W \cup I))
            /\ LineNumbers(r.errors) \subseteq E
            /\ LineNumbers(r.warnings) \subseteq W \ E
            /\ LineNumbers(r.info) \subseteq I \ (W \cup E)

\* A log with a line that has an error and a warning keyword, a line that
\* has a warning and an info keyword, and a line with no keyword was parsed.
C12_Witness ==
    /\ BuildLogParsed
    /\ LinesWith(ErrorKeywords) \cap LinesWith(WarningKeywords) # {}
    /\ LinesWith(WarningKeywords) \cap LinesWith(InfoKeywords) # {}
    /\ BuildLogReport.summary.total_lines
          > BuildLogReport.summary.errors_count + BuildLogReport.summary.warnings_count
            + BuildLogReport.summary.info_count

\* The first `cap` lines of `bucket`, in increasing order, are what `list`
\* holds, each with its stripped text.
FirstOf(list, lineset, cap) ==
    /\ Len(list) = (IF Cardinality(lineset) < cap THEN Cardinality(lineset) ELSE cap)
    /\ \A k \in 1..Len(list) :
          /\ list[k].line \in lineset
          /\ Cardinality({i \in lineset : i < list[k].line}) = k - 1
          /\ list[k].message = BuildLog[list[k].line].words

\* C13: the errors, warnings and info lists hold at most 20, 20 and 10
\* entries, which are the first lines of each bucket in increasing line
\* order, while errors_count, warnings_count and info_count are the sizes of
\* the buckets over the whole file.
C13_ListsCappedCountsExact ==
    BuildLogParsed =>
        LET r == BuildLogReport
            E == LinesWith(ErrorKeywords)
            W == LinesWith(WarningKeywords) \ E
            I == LinesWith(InfoKeywords) \ (W \cup E)
        IN  /\ Len(r.errors) <= 20 /\ Len(r.warnings) <= 20 /\ Len(r.info) <= 10
            /\ FirstOf(r.errors, E, 20)
            /\ FirstOf(r.warnings, W, 20)
            /\ FirstOf(r.info, I, 10)
            /\ r.summary.errors_count = Cardinality(E)
            /\ r.summary.warnings_count = Cardinality(W)
            /\ r.summary.info_count = Cardinality(I)

\* A log with more errors, warnings and info lines than the lists hold.
C13_Witness ==
    /\ BuildLogParsed
    /\ BuildLogReport.summary.errors_count > Len(BuildLogReport.errors)
    /\ BuildLogReport.summary.warnings_count > Len(BuildLogReport.warnings)
    /\ BuildLogReport.summary.info_count > Len(BuildLogReport.info)

\* analyze_memory_map returned a result for the map it was given.
MemoryMapAnalyzed ==
    report.tool = "analyze_memory_map" /\ "result" \in DOMAIN report.outcome

MemoryMapReport == report.outcome.result.json

\* The sum of the sizes of the first n entries of a list.
RECURSIVE SumOfSizes(_, _)
SumOfSizes(list, n) == IF n = 0 THEN 0 ELSE SumOfSizes(list, n - 1) + list[n].size

\* The number of entries of a list that are equal to x.
Count(list, x) == Cardinality({i \in 1..Len(list) : list[i] = x})

\* The symbols the lines of the map parse to, in line order.
ParsedSymbols ==
    collected(symbol_of, fs[report.args.map_path], Len(fs[report.args.map_path]))

\* C14: analyze_memory_map reports as total_size the sum of the sizes of the
\* regions in memory_regions; top_symbols has at most 50 entries, all of them
\* parsed symbols, in non-increasing order of size, and no parsed symbol that
\* was left out is larger than one that is listed.
C14_TotalSizeAndTopSymbols ==
    MemoryMapAnalyzed =>
        LET r == MemoryMapReport
            top == r.top_symbols
            parsed == ParsedSymbols
            listed == {top[i] : i \in 1..Len(top)}
            left_out == {x \in {parsed[k] : k \in 1..Len(parsed)} :
                            Count(top, x) < Count(parsed, x)}
        IN  /\ r.summary.total_size = SumOfSizes(r.memory_regions, Len(r.memory_regions))
            /\ Len(top) <= 50
            /\ Len(top) = (IF Len(parsed) < 50 THEN Len(parsed) ELSE 50)
            /\ \A x \in listed : Count(top, x) <= Count(parsed, x)
            /\ \A i \in 1..(Len(top) - 1) : top[i].size >= top[i + 1].size
            /\ \A x \in left_out : \A y \in listed : y.size >= x.size

\* A map with several regions and more than 50 symbols, of which symbols of
\* two sizes are listed and some are left out.
C14_Witness ==
    /\ MemoryMapAnalyzed
    /\ Len(MemoryMapReport.memory_regions) > 1
    /\ MemoryMapReport.summary.total_size > 0
    /\ MemoryMapReport.summary.total_symbols > 50
    /\ Cardinality(sizes(MemoryMapReport.top_symbols)) > 1

\* compare_sdkconfig was called on two files that exist.
SdkconfigCompared ==
    /\ report.tool = "compare_sdkconfig"
    /\ {"config1_path", "config2_path"} \subseteq DOMAIN report.args
    /\ {report.args.config1_path, report.args.config2_path} \subseteq DOMAIN fs

\* What compare_sdkconfig returns for the same two files exchanged.
Exchanged ==
    handle_compare_sdkconfig([config1_path |-> report.args.config2_path,
                              config2_path |-> report.args.config1_path], fs)

\* The <<key, value>> pairs of an added or removed list, in list order.
KeyValues(list) == [i \in 1..Len(list) |-> <<list[i].key, list[i].value>>]

\* The <<key, first value, second value>> triples of a modified list.
Changes(list, exchange) ==
    [i \in 1..Len(list) |->
        IF exchange THEN <<list[i].key, list[i].new_value, list[i].old_value>>
        ELSE <<list[i].key, list[i].old_value, list[i].new_value>>]

\* C15: compare_sdkconfig is symmetric under exchanging its two files: the
\* call fails for (f1,f2) exactly when it fails for (f2,f1), and otherwise the
\* added keys of (f1,f2) are the removed keys of (f2,f1) with the same values
\* and the other way round, the modified keys are the same with old_value and
\* new_value exchanged, and the counts correspond.
C15_DiffSymmetric ==
    SdkconfigCompared =>
        LET back == Exchanged
        IN  /\ "result" \in DOMAIN report.outcome <=> "result" \in DOMAIN back
            /\ "result" \in DOMAIN report.outcome =>
                LET r == report.outcome.result.json
                    q == back.result.json
                IN  /\ KeyValues(r.added) = KeyValues(q.removed)
                    /\ KeyValues(r.removed) = KeyValues(q.added)
                    /\ Changes(r.modified, FALSE) = Changes(q.modified, TRUE)
                    /\ r.summary.added_count = q.summary.removed_count
                    /\ r.summary.removed_count = q.summary.added_count
                    /\ r.summary.modified_count = q.summary.modified_count
                    /\ r.summary.total_keys = q.summary.total_keys

\* Two configs were compared whose diff has added, removed and modified keys.
C15_Witness ==
    /\ SdkconfigCompared
    /\ "result" \in DOMAIN report.outcome
    /\ report.outcome.result.json.summary.added_count > 1
    /\ report.outcome.result.json.summary.removed_count > 0
    /\ report.outcome.result.json.summary.modified_count > 0

\* `list` holds the first `cap` keys of `keys`, in ascending order.
FirstKeys(list, keys, cap) ==
    /\ Len(list) = (IF Cardinality(keys) < cap THEN Cardinality(keys) ELSE cap)
    /\ \A i \in 1..Len(list) :
          /\ list[i].key \in keys
          /\ Cardinality({k \in keys : k < list[i].key}) = i - 1

\* C16: in the result of compare_sdkconfig the added keys are those only in
\* the second file, the removed keys those only in the first, the modified
\* keys those in both with different values; these sets are pairwise disjoint
\* and with the keys of equal value make up the union of the key sets, whose
\* size is total_keys.  The lists are in ascending key order and cut to 50, 50
\* and 100 entries, while added_count, removed_count and modified_count are
\* the sizes of the sets.
C16_DiffPartition ==
    (SdkconfigCompared /\ "result" \in DOMAIN report.outcome) =>
        LET r == report.outcome.result.json
            config1 == parse_config(fs[report.args.config1_path])
            config2 == parse_config(fs[report.args.config2_path])
            A == DOMAIN config2 \ DOMAIN config1
            R == DOMAIN config1 \ DOMAIN config2
            M == {k \in DOMAIN config1 \cap DOMAIN config2 : config1[k] # config2[k]}
            S == {k \in DOMAIN config1 \cap DOMAIN config2 : config1[k] = config2[k]}
        IN  /\ r.summary.total_keys = Cardinality(DOMAIN config1 \cup DOMAIN config2)
            /\ r.summary.added_count = Cardinality(A)
            /\ r.summary.removed_count = Cardinality(R)
            /\ r.summary.modified_count = Cardinality(M)
            /\ r.summary.total_keys
                  = r.summary.added_count + r.summary.removed_count
                    + r.summary.modified_count + Cardinality(S)
            /\ FirstKeys(r.added, A, 50)
            /\ FirstKeys(r.removed, R, 50)
            /\ FirstKeys(r.modified, M, 100)
            /\ \A i \in 1..Len(r.added) : r.added[i].value = config2[r.added[i].key]
            /\ \A i \in 1..Len(r.removed) : r.removed[i].value = config1[r.removed[i].key]

\* A diff with more than 100 modified keys, and added and removed keys.
C16_Witness ==
    /\ SdkconfigCompared
    /\ "result" \in DOMAIN report.outcome
    /\ report.outcome.result.json.summary.modified_count > 100
    /\ Len(report.outcome.result.json.modified) = 100
    /\ report.outcome.result.json.summary.added_count > 0
    /\ report.outcome.result.json.summary.removed_count > 0

\* The arguments that name the files an analysis handler reads.
PathArgs(tool) ==
    CASE tool = "parse_build_log" -> {"log_path"}
      [] tool = "analyze_memory_map" -> {"map_path"}
      [] tool = "compare_sdkconfig" -> {"config1_path", "config2_path"}
      [] tool = "analyze_dependencies" -> {"project_path"}
      [] tool = "format_device_log" -> {"log_path"}
      [] OTHER -> {}

\* An analysis handler was called on input files that exist.
CalledOnFiles ==
    /\ PathArgs(report.tool) # {}
    /\ \A k \in PathArgs(report.tool) :
          k \in DOMAIN report.args /\ report.args[k] \in DOMAIN fs

\* C17: whatever the files that exist hold, an analysis handler returns
\* {result}: no line or value of the input makes the call end in {error}.
C17_ContentsNeverFatal ==
    CalledOnFiles => "result" \in DOMAIN report.outcome

\* The dependency graph of a dict, private tags stripped.
Edge(g, a, b) ==
    a \in DOMAIN g.of /\ \E i \in 1..Len(g.of[a]) : g.of[a][i].name = b

Targets(g) == UNION {{g.of[a][i].name : i \in 1..Len(g.of[a])} : a \in DOMAIN g.of}

Nodes(g) == DOMAIN g.of \cup Targets(g)

\* The nodes reached from S by one or more edges.
RECURSIVE Closure(_, _)
Closure(g, S) ==
    LET T == S \cup {b \in Targets(g) : \E a \in S : Edge(g, a, b)}
    IN  IF T = S THEN S ELSE Closure(g, T)

Reach(g, a) == Closure(g, {b \in Targets(g) : Edge(g, a, b)})

Cyclic(g) == \E n \in Nodes(g) : n \in Reach(g, n)

\* The elements of a list.
Members(list) == {list[i] : i \in 1..Len(list)}

\* C18: on the dependency graph with private tags stripped, the cycle
\* detector reports a cycle exactly when the graph has a directed cycle (a
\* self-dependency is one); two components that require each other are both
\* in some reported cycle; and a reported cycle is a list that ends with its
\* first element and whose consecutive elements are declared edges.
C18_CycleDetector ==
    report.tool = "_detect_circular_deps" =>
        LET g == report.args.deps
            circular == report.outcome.circular
        IN  /\ circular # <<>> <=> Cyclic(g)
            /\ \A a, b \in Nodes(g) :
                  Edge(g, a, b) /\ Edge(g, b, a) =>
                      \E i \in 1..Len(circular) : {a, b} \subseteq Members(circular[i])
            /\ \A i \in 1..Len(circular) :
                  /\ Len(circular[i]) >= 2
                  /\ circular[i][1] = circular[i][Len(circular[i])]
                  /\ \A k \in 1..(Len(circular[i]) - 1) :
                        Edge(g, circular[i][k], circular[i][k + 1])

\* A cycle through three components was reported, one of its edges private.
C18_Witness ==
    /\ report.tool = "_detect_circular_deps"
    /\ \E i \in 1..Len(report.outcome.circular) :
          Cardinality(Members(report.outcome.circular[i])) = 3
    /\ \E a \in DOMAIN report.args.deps.of :
          \E i \in 1..Len(report.args.deps.of[a]) : report.args.deps.of[a][i].private

\* The number of edges of the longest path of an acyclic graph that ends in
\* S, the set of nodes k edges away from the start of some path.
RECURSIVE LongestPath(_, _, _)
LongestPath(g, S, k) ==
    IF {b \in Targets(g) : \E a \in S : Edge(g, a, b)} = {} THEN k
    ELSE LongestPath(g, {b \in Targets(g) : \E a \in S : Edge(g, a, b)}, k + 1)

C20_CyclesReported ==
    (report.tool = "analyze_dependencies" /\ CalledOnFiles
     /\ Cyclic(dependencies(fs[report.args.project_path]))) =>
        /\ "result" \in DOMAIN report.outcome
        /\ report.outcome.result.json.circular_dependencies
              = _detect_circular_deps(dependencies(fs[report.args.project_path]))
        /\ report.outcome.result.json.circular_dependencies # <<>>
        /\ report.outcome.result.json.summary.circular_dependencies
              = Len(report.outcome.result.json.circular_dependencies)
        /\ "Circular dependencies detected - this may cause build issues"
              \in Members(report.outcome.result.json.recommendations)

\* format_device_log returned a result for the log it was given.
DeviceLogFormatted ==
    report.tool = "format_device_log" /\ "result" \in DOMAIN report.outcome

DeviceLog == fs[report.args.log_path]
DeviceLogReport == report.outcome.result.json
DeviceFilter == upper(get(report.args, "filter_level", ""))

\* The lines of the log that are not blank, in input order.
NonBlank(lines) == SelectSeq(lines, LAMBDA l : ~is_blank(l))

\* The lines whose level, after the structured override, is the filter's.
OfLevel(lines, level) ==
    SelectSeq(lines, LAMBDA l : level = "" \/ resolved_level(l) = level)

\* `list` holds the first `cap` entries of `all`, in the same order.
Prefix(list, all, cap) ==
    /\ Len(list) = (IF Len(all) < cap THEN Len(all) ELSE cap)
    /\ \A k \in 1..Len(list) : list[k] = all[k]

\* C21: with a level filter, given in any case, format_device_log returns in
\* entries, crashes and errors only entries whose level is the filter's;
\* without a filter every line that is not blank gives an entry; and the
\* lists hold the first 200 entries, 10 crashes and 20 errors in input order.
C21_FilterAndCaps ==
    DeviceLogFormatted =>
        LET r == DeviceLogReport
            kept == Map(OfLevel(NonBlank(DeviceLog), DeviceFilter), device_entry)
        IN  /\ DeviceFilter # "" =>
                  \A e \in Members(r.entries) \cup Members(r.crashes) \cup Members(r.errors) :
                      e.level = DeviceFilter
            /\ DeviceFilter = "" => r.summary.total_entries = Len(NonBlank(DeviceLog))
            /\ r.summary.total_entries = Len(kept)
            /\ Len(r.entries) <= 200 /\ Len(r.crashes) <= 10 /\ Len(r.errors) <= 20
            /\ Prefix(r.entries, kept, 200)
            /\ Prefix(r.crashes, SelectSeq(kept, LAMBDA e : e.is_crash), 10)
            /\ Prefix(r.errors, SelectSeq(kept, LAMBDA e : e.is_error), 20)

\* A log was filtered by a level given in lower case: lines of other levels
\* were left out, and more entries, crashes and errors were kept than the
\* lists hold.
C21_Witness ==
    /\ DeviceLogFormatted
    /\ report.args = [log_path |-> "device.log", filter_level |-> "error"]
    /\ DeviceLogReport.summary.total_entries < Len(NonBlank(DeviceLog))
    /\ DeviceLogReport.summary.total_entries > Len(DeviceLogReport.entries)
    /\ DeviceLogReport.summary.crashes_count > Len(DeviceLogReport.crashes)
    /\ DeviceLogReport.summary.errors_count > Len(DeviceLogReport.errors)

\* C22: for every level L, level_counts[L] is the number of lines of the
\* whole log, blank lines aside, whose level after the structured override
\* (the level recorded in the entry) is L, whatever the filter; so
\* level_counts["ERROR"] is the number of ERROR entries of an unfiltered call.
C22_LevelCountsResolved ==
    DeviceLogFormatted =>
        /\ \A L \in DOMAIN DeviceLogReport.summary.level_counts :
              DeviceLogReport.summary.level_counts[L]
                = Len(SelectSeq(NonBlank(DeviceLog), LAMBDA l : device_entry(l).level = L))
        /\ DeviceLogReport.summary.level_counts["ERROR"]
              = Len(SelectSeq(device_log_entries(DeviceLog, ""), LAMBDA e : e.level = "ERROR"))

\* C29: an entry is flagged is_error exactly when the level found by
\* substring in its line is ERROR or the line contains 'error' in any case: a
\* line that is ERROR only by its level character 'E' is not flagged.
C29_ErrorFlagCoarse ==
    DeviceLogFormatted =>
        LET kept == OfLevel(NonBlank(DeviceLog), DeviceFilter)
        IN  \A k \in 1..Len(DeviceLogReport.entries) :
                DeviceLogReport.entries[k].is_error
                    <=> (coarse_level(kept[k]) = "ERROR" \/ has_error_text(kept[k]))

\* run() has left its loop.
Stopped == pc \in {"done", "interrupted", "crashed"}

\* C23: request_count goes up by exactly one when a line is read, whether
\* the line is then answered, fails to decode or is dropped, and changes at no
\* other step; every line read is handled before the loop reads again or
\* stops; the loop stops when the stream ends, and the summary it logs then is
\* the number of lines read.
C23_EveryLineCounted ==
    /\ [][request_count' = request_count + (IF pc = "read" /\ pc' = "handle" THEN 1 ELSE 0)]_vars
    /\ [](pc = "done" => summary = request_count)
    /\ [](Stopped => pc # "handle")
    /\ (pc = "handle" ~> pc = "read")
    /\ <>Stopped

\* The stream ended after lines that were answered, failed to decode and
\* were dropped without an answer.
C23_Witness ==
    /\ pc = "done"
    /\ summary >= 2
    /\ Len(stdout) < summary
    /\ stderr # <<>>

\* C24: once a blank line (a line holding only its terminator) is read, the
\* loop ends: no line after it is read.
C24_BlankLineEndsLoop ==
    [][(request_count > 0 /\ line.raw = "blank") => request_count' = request_count]_vars

\* C25: on a dependency graph with a directed cycle the depth computation
\* returns no depth: the recursion comes back to a node of the cycle before
\* that node is in memo, goes round again without end, and stops only when
\* the recursion limit is exhausted.  That holds for the computation as a
\* whole and for every node from which a cycle is reached.
C25_DepthDivergesOnCycle ==
    (report.tool = "_calculate_max_depth" /\ Cyclic(report.args.deps)) =>
        /\ report.outcome.raised
        /\ \A n \in Nodes(report.args.deps) :
              (\E m \in {n} \cup Reach(report.args.deps, n) : m \in Reach(report.args.deps, m))
                  <=> get_depth(report.args.deps, n, EmptyDict, {}).raised

\* The depth of a graph was asked for in which one component is on a cycle
\* and another is not.
C25_Witness ==
    /\ report.tool = "_calculate_max_depth"
    /\ report.outcome.raised
    /\ \E n, m \in DOMAIN report.args.deps.of :
          /\ n \in Reach(report.args.deps, n)
          /\ ~get_depth(report.args.deps, m, EmptyDict, {}).raised

\* The advisory lines of a category of errors, and the texts that put an
\* error line in the category.
Advisories(category) ==
    CASE category = "linking_error" ->
            <<"Check for missing source files in CMakeLists.txt",
              "Ensure all required libraries are linked">>
      [] category = "syntax_error" -> <<"Review syntax errors in source files">>
      [] category = "file_not_found" -> <<"Verify all file paths are correct">>

CategoryTexts(category) ==
    CASE category = "linking_error" -> {"undefined reference", "multiple definition"}
      [] category = "syntax_error" -> {"syntax error"}
      [] category = "file_not_found" -> {"no such file"}

\* Some error line of the log contains a text of the category.
CategoryPresent(category) ==
    \E i \in LinesWith(ErrorKeywords) : any_keyword(CategoryTexts(category), BuildLog[i])

\* C26: the advisory of a category (linking, syntax, file not found) is in
\* suggestions exactly when some error line of the log contains one of the
\* category's texts; the advisories come in the order linking, syntax, file
\* not found, at most two lines for a category; and there is no suggestions
\* key when the log has no error line.
C26_AdvisoryPerCategoryPresent ==
    BuildLogParsed =>
        /\ "suggestions" \in DOMAIN BuildLogReport <=> LinesWith(ErrorKeywords) # {}
        /\ "suggestions" \in DOMAIN BuildLogReport =>
              /\ \A category \in {"linking_error", "syntax_error", "file_not_found"} :
                    /\ Len(Advisories(category)) <= 2
                    /\ CategoryPresent(category)
                          <=> Members(Advisories(category)) \subseteq Members(BuildLogReport.suggestions)
              /\ BuildLogReport.suggestions
                    = (IF CategoryPresent("linking_error")
                       THEN Advisories("linking_error") ELSE <<>>)
                      \o (IF CategoryPresent("syntax_error")
                          THEN Advisories("syntax_error") ELSE <<>>)
                      \o (IF CategoryPresent("file_not_found")
                          THEN Advisories("file_not_found") ELSE <<>>)

\* The declarations of a manifest: its REQUIRES and PRIV_REQUIRES clauses
\* that name a component, as the entries they should give.
Declared(content) ==
    Map(SelectSeq(content, LAMBDA c : c.keyword \in {"REQUIRES", "PRIV_REQUIRES"}
                                      /\ c.words # <<>>),
        LAMBDA c : [name |-> c.words[1], private |-> c.keyword = "PRIV_REQUIRES"])

\* The manifest of a component of the project analysed.
ManifestOf(name) ==
    (CHOOSE c \in Members(fs[report.args.project_path]) : c.name = name).content

\* C28: in the result of analyze_dependencies a component has one untagged
\* entry for each 'REQUIRES <name>' of its manifest and one entry tagged
\* private for each 'PRIV_REQUIRES <name>', and nothing else, so that
\* dependency_count is the number of declarations; cycle detection and depth
\* follow the names without the tag.
C28_OneEntryPerDeclaration ==
    (report.tool = "analyze_dependencies" /\ "result" \in DOMAIN report.outcome) =>
        \A k \in 1..Len(report.outcome.result.json.components) :
            LET c == report.outcome.result.json.components[k]
            IN  /\ c.dependency_count = Len(Declared(ManifestOf(c.name)))
                /\ \A e \in Members(c.dependencies) \cup Members(Declared(ManifestOf(c.name))) :
                      Len(SelectSeq(c.dependencies, LAMBDA d : d = e))
                        = Len(SelectSeq(Declared(ManifestOf(c.name)), LAMBDA d : d = e))

\* The symbol lines of a map: not empty, not starting with '.', holding '0x'.
SymbolLines(lines) ==
    SelectSeq(lines, LAMBDA l : l.words # <<>> /\ ~startswith_dot(l) /\ has_0x(l))

\* C27: a symbol line of exactly two tokens, a name and a hexadecimal
\* address, gives a symbol with the first token as name, the address parsed
\* from the second token and size 0; a symbol line of three or more tokens
\* gives a symbol with the last two tokens as address and size and the tokens
\* before them, joined by blanks, as name.  (Stated for maps short enough for
\* top_symbols to hold every symbol.)
C27_SymbolLineShapes ==
    (MemoryMapAnalyzed /\ Len(fs[report.args.map_path]) <= MaxTopSymbols) =>
        \A l \in Members(SymbolLines(fs[report.args.map_path])) :
            /\ (Len(l.words) = 2 /\ ~not_hex(l.words[2])) =>
                  [name |-> l.words[1],
                   address |-> hex08(hex_value[l.words[2]]),
                   size |-> 0] \in Members(MemoryMapReport.top_symbols)
            /\ (Len(l.words) >= 3 /\ ~not_hex(l.words[Len(l.words) - 1])
                /\ ~not_hex(l.words[Len(l.words)])) =>
                  [name |-> JoinLines(SubSeq(l.words, 1, Len(l.words) - 2), " "),
                   address |-> hex08(hex_value[l.words[Len(l.words) - 1]]),
                   size |-> hex_value[l.words[Len(l.words)]]]
                      \in Members(MemoryMapReport.top_symbols)

\* The responses on stdout that carry the instructions of initialize.
Instructions ==
    {i \in 1..Len(stdout) :
        /\ "result" \in DOMAIN stdout[i].msg
        /\ "instructions" \in DOMAIN stdout[i].msg.result}

\* `line` is a tools/call that names a tool of the registry.
CallsListedTool ==
    /\ IsToolsCall
    /\ Params.t = "obj"
    /\ ToolName.t = "str"
    /\ ToolName.v \in Members(TOOLS)

\* C30: the names tools/list returns, the keys of the handler table and the
\* names the instructions of initialize enumerate are the same set; so a
\* tools/call that names a tool listed by tools/list reaches that tool's
\* handler and is never answered "Unknown tool".
C30_CatalogsAgree ==
    /\ Members(TOOLS) = handlers
    /\ Members(InstructionTools) = handlers
    /\ \A i \in ToolLists : Members(stdout[i].msg.result.tools) = handlers
    /\ \A i \in Instructions : Members(stdout[i].msg.result.instructions.tools) = handlers
    /\ (Handled /\ CallsListedTool) =>
          /\ last.call.invoked = ToolName.v
          /\ \A i \in Answers :
                stdout[i].msg.result.content[1].text # "Error: Unknown tool: " \o ToolName.v

\* After tools/list was answered, a tools/call naming a listed tool was
\* answered by its handler's result.
C30_Witness ==
    /\ Handled /\ CallsListedTool
    /\ ToolLists # {}
    /\ last.call.ended = "result"
    /\ \E i \in Answers : ~stdout[i].msg.result.isError

====
